---- MODULE Spec2Model ----
(***************************************************************************)
(* Model of the v0.17.1 wallet conversions of rust-bitcoind-json-rpc:      *)
(* the wire records of json/src/v17/wallet.rs, their into_model functions, *)
(* the single-field accessors built on them and the client helpers of      *)
(* client/src/client_sync/v17/wallet.rs.                                   *)
(*                                                                         *)
(* A conversion is a pure function of one wire record.  Each operation is  *)
(* one action: it draws a wire record from a bounded set, runs the whole   *)
(* function and stores what it returned together with the list of field    *)
(* converters it applied, in the order it applied them.                    *)
(***************************************************************************)
EXTENDS Integers, Sequences, FiniteSets, TLC

VARIABLES pc, op, input, result, applied

vars == <<pc, op, input, result, applied>>

(***************************************************************************)
(* Bounds of the model.                                                    *)
(***************************************************************************)
\* Longest `details` list of a GetTransaction record.
MaxDetails == 2

\* Largest number of subunits of the unsigned amount type (u64::MAX in the
\* library), scaled down so that values on both sides of it can be drawn.
AmountMax == 2000000

\* Largest number of subunits of the signed amount type (i64::MAX in the
\* library, smaller than the unsigned maximum), scaled down likewise.
SignedAmountMax == 1000000

(***************************************************************************)
(* Result<T, E>, Option<T> and a panic (an abort that unwinds the caller). *)
(***************************************************************************)
Ok(v) == [kind |-> "ok", val |-> v]

Err(e) == [kind |-> "err", err |-> e]

Panic(m) == [kind |-> "panic", msg |-> m]

IsOk(r) == r.kind = "ok"

IsErr(r) == r.kind = "err"

IsPanic(r) == r.kind = "panic"

None == [is_some |-> FALSE]

Some(v) == [is_some |-> TRUE, val |-> v]

\* A tagged error variant wrapping its cause: E::Variant(cause).
Variant(tag, cause) == [variant |-> tag, cause |-> cause]

\* What a function returned and which field converters it applied.
Outcome(r, a) == [res |-> r, applied |-> a]

\* One entry of the list of converters applied: a field and, for an element
\* of a list field, its 1-based index (0 for a scalar field).
Field(f) == [field |-> f, index |-> 0]

Elem(f, i) == [field |-> f, index |-> i]

Rep(c, n) == [i \in 1..n |-> c]

(***************************************************************************)
(* Decimal wire values.  An f64 currency value is the decimal number its   *)
(* shortest round-trip rendering denotes: a sign, a whole number `sat` of  *)
(* subunits (1e-8 of the unit) and a ninth decimal digit `sub`; sub # 0    *)
(* means the value has more precision than one subunit.                    *)
(***************************************************************************)
Dec(neg, sat, sub) == [neg |-> neg, sat |-> sat, sub |-> sub]

IsNegative(x) == x.neg /\ (x.sat > 0 \/ x.sub > 0)

\* Amount::from_btc: a negative value is refused first, then the rendered
\* decimal is parsed: more than eight decimals is too precise, more subunits
\* than the type holds is out of range.
Amount_from_btc(x) ==
    IF IsNegative(x) THEN Err([variant |-> "OutOfRange", is_negative |-> TRUE])
    ELSE IF x.sub # 0 THEN Err([variant |-> "TooPrecise"])
    ELSE IF x.sat > AmountMax THEN Err([variant |-> "OutOfRange", is_negative |-> FALSE])
    ELSE Ok([ty |-> "Amount", sat |-> x.sat])

\* Mutant: the unsigned conversion used for a field that may be negative.
SignedAmount_from_btc_unsigned(x) ==
    IF IsNegative(x) THEN Err([variant |-> "OutOfRange", is_negative |-> TRUE])
    ELSE IF x.sub # 0 THEN Err([variant |-> "TooPrecise"])
    ELSE IF x.sat > SignedAmountMax
         THEN Err([variant |-> "OutOfRange", is_negative |-> FALSE])
    ELSE Ok([ty |-> "SignedAmount", sat |-> x.sat])

\* Mutant: the ninth decimal is dropped instead of refused.
SignedAmount_from_btc_rounding(x) ==
    IF x.sat > SignedAmountMax
    THEN Err([variant |-> "OutOfRange", is_negative |-> x.neg])
    ELSE Ok([ty |-> "SignedAmount", sat |-> IF x.neg THEN 0 - x.sat ELSE x.sat])

\* Mutant: the sign of the value is dropped.
SignedAmount_from_btc_abs(x) ==
    IF x.sub # 0 THEN Err([variant |-> "TooPrecise"])
    ELSE IF x.sat > SignedAmountMax
         THEN Err([variant |-> "OutOfRange", is_negative |-> x.neg])
    ELSE Ok([ty |-> "SignedAmount", sat |-> x.sat])

\* SignedAmount::from_btc: the sign is kept.
SignedAmount_from_btc(x) ==
    IF x.sub # 0 THEN Err([variant |-> "TooPrecise"])
    ELSE IF x.sat > SignedAmountMax
         THEN Err([variant |-> "OutOfRange", is_negative |-> x.neg])
    ELSE Ok([ty |-> "SignedAmount", sat |-> IF x.neg THEN 0 - x.sat ELSE x.sat])

\* Amount::to_btc and SignedAmount::to_btc: the decimal rendering of a number
\* of subunits.
Amount_to_btc(a) ==
    Dec(a.sat < 0, IF a.sat < 0 THEN 0 - a.sat ELSE a.sat, 0)

(***************************************************************************)
(* Hex strings are sequences of characters.                                *)
(***************************************************************************)
HexValue ==
    [c \in {"0", "1", "2", "3", "4", "5", "6", "7", "8", "9",
            "a", "b", "c", "d", "e", "f", "A", "B", "C", "D", "E", "F"} |->
        CASE c = "0" -> 0 [] c = "1" -> 1 [] c = "2" -> 2 [] c = "3" -> 3
          [] c = "4" -> 4 [] c = "5" -> 5 [] c = "6" -> 6 [] c = "7" -> 7
          [] c = "8" -> 8 [] c = "9" -> 9
          [] c \in {"a", "A"} -> 10 [] c \in {"b", "B"} -> 11
          [] c \in {"c", "C"} -> 12 [] c \in {"d", "D"} -> 13
          [] c \in {"e", "E"} -> 14 [] c \in {"f", "F"} -> 15]

IsHexChar(c) == c \in DOMAIN HexValue

\* Position of the first character that is no hex digit, 0 if there is none.
FirstInvalidChar(s) ==
    IF \A i \in 1..Len(s) : IsHexChar(s[i]) THEN 0
    ELSE CHOOSE i \in 1..Len(s) :
            /\ ~IsHexChar(s[i])
            /\ \A j \in 1..(i - 1) : IsHexChar(s[j])

\* The bytes a hex string of even length and hex digits only denotes.
HexBytes(s) ==
    [i \in 1..(Len(s) \div 2) |-> 16 * HexValue[s[2 * i - 1]] + HexValue[s[2 * i]]]

\* Bytes of a transaction id.
TxidBytes == 32

\* Mutant: a string longer than the array is cut to the array's length.
HexToArray_truncating(s, n) ==
    IF Len(s) < 2 * n
    THEN Err([variant |-> "InvalidLength", expected |-> 2 * n, got |-> Len(s)])
    ELSE IF FirstInvalidChar(SubSeq(s, 1, 2 * n)) # 0
         THEN Err([variant |-> "InvalidChar", at |-> FirstInvalidChar(SubSeq(s, 1, 2 * n))])
    ELSE Ok(HexBytes(SubSeq(s, 1, 2 * n)))

\* <[u8; N] as FromHex>::from_hex, behind str::parse::<Txid>(): the length is
\* checked before any character is read.
HexToArray(s, n) ==
    IF Len(s) # 2 * n
    THEN Err([variant |-> "InvalidLength", expected |-> 2 * n, got |-> Len(s)])
    ELSE IF FirstInvalidChar(s) # 0
         THEN Err([variant |-> "InvalidChar", at |-> FirstInvalidChar(s)])
    ELSE Ok(HexBytes(s))

\* Mutant: hex of any length is taken as a transaction id.
Txid_from_str_any_length(s) ==
    IF Len(s) % 2 # 0 \/ FirstInvalidChar(s) # 0
    THEN Err([variant |-> "InvalidChar", at |-> FirstInvalidChar(s)])
    ELSE Ok([ty |-> "Txid", bytes |-> HexBytes(s)])

Txid_from_str(s) ==
    LET r == HexToArray(s, TxidBytes)
    IN  IF IsOk(r) THEN Ok([ty |-> "Txid", bytes |-> r.val]) ELSE r

\* The serialisation of a one-input one-output version 1 transaction: the
\* byte strings the consensus decoder accepts are given by table.
ValidTxHex ==
    <<"0", "1">> \o Rep("0", 6) \o <<"0", "1">> \o Rep("0", 64) \o Rep("f", 8)
        \o <<"0", "0">> \o Rep("f", 8) \o <<"0", "1">> \o Rep("0", 16)
        \o <<"0", "0">> \o Rep("0", 8)

KnownTransactions == {HexBytes(ValidTxHex)}

\* encode::deserialize_hex::<Transaction>: hex decoding, then consensus
\* decoding of the bytes.
deserialize_hex(s) ==
    IF Len(s) % 2 # 0 THEN Err([variant |-> "OddLengthString", len |-> Len(s)])
    ELSE IF FirstInvalidChar(s) # 0
         THEN Err([variant |-> "Hex", at |-> FirstInvalidChar(s)])
    ELSE IF HexBytes(s) \in KnownTransactions
         THEN Ok([ty |-> "Transaction", bytes |-> HexBytes(s)])
    ELSE Err([variant |-> "Decode"])

(***************************************************************************)
(* Addresses.  The strings that parse are given by table.                  *)
(***************************************************************************)
KnownAddresses ==
    {"132F25rTsvBdp9JzLLBHP5mvGY66i1xdiM", "32iVBEu4dxkUQk9dJbZUiBiQdmypcEyJRf",
     "bc1qw508d6qejxtdg4y5r3zarvary0c5xw7kv8f3t4",
     "BC1QW508D6QEJXTDG4Y5R3ZARVARY0C5XW7KV8F3T4"}

\* What a string decodes to.  A bech32 string is accepted in lower case and
\* in upper case and decodes to the same witness program; a base58 string is
\* case sensitive.
Address_payload(s) ==
    IF s = "BC1QW508D6QEJXTDG4Y5R3ZARVARY0C5XW7KV8F3T4"
    THEN "bc1qw508d6qejxtdg4y5r3zarvary0c5xw7kv8f3t4"
    ELSE s

\* Address::from_str: a syntax-only parse giving a network-unchecked address.
Address_from_str(s) ==
    IF s \in KnownAddresses
    THEN Ok([ty |-> "Address", payload |-> Address_payload(s), checked |-> FALSE])
    ELSE Err([variant |-> "ParseError", input |-> s])

assume_checked(a) == [a EXCEPT !.checked = TRUE]

(***************************************************************************)
(* Enumerations.  A wire enum value and a model enum value are values of   *)
(* different types even when their variants have the same names.           *)
(***************************************************************************)
WireEnum(ty, v) == [ty |-> ty, variant |-> v, model |-> FALSE]

ModelEnum(ty, v) == [ty |-> ty, variant |-> v, model |-> TRUE]

TransactionCategory_into_model(self) ==
    CASE self.variant = "Send" -> ModelEnum("TransactionCategory", "Send")
      [] self.variant = "Receive" -> ModelEnum("TransactionCategory", "Receive")

\* The value of a match on a variant that none of its arms names.
Unmatched(v) == [kind |-> "unmatched", val |-> v]

Bip125Replaceable_into_model(self) ==
    CASE self.variant = "Yes" -> ModelEnum("Bip125Replaceable", "Yes")
      [] self.variant = "No" -> ModelEnum("Bip125Replaceable", "No")
      [] self.variant = "Unknown" -> ModelEnum("Bip125Replaceable", "Unknown")

\* The variants the wire enum GetAddressInfoScriptType declares.
GetAddressInfoScriptType_variants ==
    {"NonStandard", "Pubkey", "PubkeyHash", "ScriptHash", "Multisig", "NullData",
     "WitnessV0KeyHash", "WitnessV0ScriptHash", "WitnessUnknown"}

\* The match of GetAddressInfoScriptType::into_model: its ninth arm names
\* V::WitnessVersion, which the enum does not declare, and no arm names
\* V::WitnessUnknown.
GetAddressInfoScriptType_into_model(self) ==
    CASE self.variant = "NonStandard" -> Ok(ModelEnum("ScriptType", "NonStandard"))
      [] self.variant = "Pubkey" -> Ok(ModelEnum("ScriptType", "Pubkey"))
      [] self.variant = "PubkeyHash" -> Ok(ModelEnum("ScriptType", "PubkeyHash"))
      [] self.variant = "ScriptHash" -> Ok(ModelEnum("ScriptType", "ScriptHash"))
      [] self.variant = "Multisig" -> Ok(ModelEnum("ScriptType", "Multisig"))
      [] self.variant = "NullData" -> Ok(ModelEnum("ScriptType", "NullData"))
      [] self.variant = "WitnessV0KeyHash" ->
            Ok(ModelEnum("ScriptType", "WitnessV0KeyHash"))
      [] self.variant = "WitnessV0ScriptHash" ->
            Ok(ModelEnum("ScriptType", "WitnessV0ScriptHash"))
      [] self.variant = "WitnessVersion" -> Ok(ModelEnum("ScriptType", "WitnessVersion"))
      [] OTHER -> Unmatched(self)

(***************************************************************************)
(* gettransaction                                                          *)
(***************************************************************************)
\* The fields of the wire record, in the order the struct declares them.
GetTransaction_fields ==
    <<"account", "amount", "fee", "confirmations", "block_hash", "block_index",
      "block_time", "txid", "time", "time_received", "bip125_replaceable",
      "details", "hex">>

\* Mutant: a record without a label takes the deprecated account as label.
GetTransactionDetail_into_model_account(self) ==
    LET address == Address_from_str(self.address)
        amount == SignedAmount_from_btc(self.amount)
        fee == SignedAmount_from_btc(self.fee.val)
        a1 == <<Field("address")>>
        a2 == Append(a1, Field("amount"))
        a3 == IF self.fee.is_some THEN Append(a2, Field("fee")) ELSE a2
    IN  IF IsErr(address) THEN Outcome(Err(Variant("Address", address.err)), a1)
        ELSE IF IsErr(amount) THEN Outcome(Err(Variant("Amount", amount.err)), a2)
        ELSE IF self.fee.is_some /\ IsErr(fee)
             THEN Outcome(Err(Variant("Fee", fee.err)), a3)
        ELSE Outcome(
                Ok([address |-> address.val,
                    category |-> TransactionCategory_into_model(self.category),
                    amount |-> amount.val,
                    label |-> IF self.label.is_some \/ self.account = ""
                              THEN self.label ELSE Some(self.account),
                    vout |-> self.vout,
                    fee |-> IF self.fee.is_some THEN Some(fee.val) ELSE None,
                    abandoned |-> self.abandoned]),
                a3)

GetTransactionDetail_into_model(self) ==
    LET address == Address_from_str(self.address)
        amount == SignedAmount_from_btc(self.amount)
        fee == SignedAmount_from_btc(self.fee.val)
        a1 == <<Field("address")>>
        a2 == Append(a1, Field("amount"))
        a3 == IF self.fee.is_some THEN Append(a2, Field("fee")) ELSE a2
    IN  IF IsErr(address) THEN Outcome(Err(Variant("Address", address.err)), a1)
        ELSE IF IsErr(amount) THEN Outcome(Err(Variant("Amount", amount.err)), a2)
        ELSE IF self.fee.is_some /\ IsErr(fee)
             THEN Outcome(Err(Variant("Fee", fee.err)), a3)
        ELSE Outcome(
                Ok([address |-> address.val,
                    category |-> TransactionCategory_into_model(self.category),
                    amount |-> amount.val,
                    label |-> self.label,
                    vout |-> self.vout,
                    fee |-> IF self.fee.is_some THEN Some(fee.val) ELSE None,
                    abandoned |-> self.abandoned]),
                a3)

\* Mutant: the error of a detail record returned as if it were the outer
\* record's error for the field of the same name.
GetTransaction_details_err_flattened(e) == Variant(e.variant, e.cause)

\* .map_err(E::Details): the error of a detail record, wrapped as it is.
GetTransaction_details_err(e) == Variant("Details", e)

\* Mutant: every element is converted before the first error is returned.
GetTransaction_details_loop_collect(details, i, acc, a) ==
    LET all == [k \in 1..Len(details) |-> GetTransactionDetail_into_model(details[k]).res]
        a1 == a \o [k \in 1..Len(details) |-> Elem("details", k)]
        bad == {k \in 1..Len(details) : IsErr(all[k])}
    IN  IF bad = {} THEN Outcome(Ok([k \in 1..Len(details) |-> all[k].val]), a1)
        ELSE Outcome(Err(Variant("Details",
                all[CHOOSE k \in bad : \A j \in bad : k <= j].err)), a1)

\* Mutant: the elements are converted from the last to the first and pushed
\* in that order.
GetTransaction_details_loop_reversed(details, i, acc, a) ==
    LET n == Len(details)
        all == [k \in 1..n |-> GetTransactionDetail_into_model(details[k]).res]
        bad == {k \in 1..n : IsErr(all[k])}
        last == CHOOSE k \in bad : \A j \in bad : j <= k
    IN  IF bad = {}
        THEN Outcome(Ok([k \in 1..n |-> all[n + 1 - k].val]),
                     a \o [k \in 1..n |-> Elem("details", n + 1 - k)])
        ELSE Outcome(Err(Variant("Details", all[last].err)),
                     a \o [k \in 1..(n + 1 - last) |-> Elem("details", n + 1 - k)])

\* The loop over self.details: the elements are converted in list order and
\* the first failure returns from into_model.
RECURSIVE GetTransaction_details_loop(_, _, _, _)
GetTransaction_details_loop(details, i, acc, a) ==
    IF i > Len(details) THEN Outcome(Ok(acc), a)
    ELSE LET concrete == GetTransactionDetail_into_model(details[i]).res
             a1 == Append(a, Elem("details", i))
         IN  IF IsErr(concrete)
             THEN Outcome(Err(GetTransaction_details_err(concrete.err)), a1)
             ELSE GetTransaction_details_loop(details, i + 1,
                                              Append(acc, concrete.val), a1)

GetTransaction_into_model(self) ==
    LET amount == SignedAmount_from_btc(self.amount)
        fee == SignedAmount_from_btc(self.fee.val)
        txid == Txid_from_str(self.txid)
        tx == deserialize_hex(self.hex)
        a1 == <<Field("amount")>>
        a2 == IF self.fee.is_some THEN Append(a1, Field("fee")) ELSE a1
        a3 == Append(a2, Field("txid"))
        a4 == Append(a3, Field("hex"))
        details == GetTransaction_details_loop(self.details, 1, <<>>, a4)
    IN  IF IsErr(amount) THEN Outcome(Err(Variant("Amount", amount.err)), a1)
        ELSE IF self.fee.is_some /\ IsErr(fee)
             THEN Outcome(Err(Variant("Fee", fee.err)), a2)
        ELSE IF IsErr(txid) THEN Outcome(Err(Variant("Txid", txid.err)), a3)
        ELSE IF IsErr(tx) THEN Outcome(Err(Variant("Tx", tx.err)), a4)
        ELSE IF IsErr(details.res) THEN details
        ELSE Outcome(
                Ok([amount |-> amount.val,
                    fee |-> IF self.fee.is_some THEN Some(fee.val) ELSE None,
                    confirmations |-> self.confirmations,
                    txid |-> txid.val,
                    time |-> self.time,
                    time_received |-> self.time_received,
                    bip125_replaceable |-> self.bip125_replaceable,
                    details |-> details.res.val,
                    tx |-> tx.val]),
                details.applied)

(***************************************************************************)
(* getaddressinfo                                                          *)
(***************************************************************************)
\* Bytes of a Hash160 (the HD seed id).
Hash160Bytes == 20

\* ScriptBuf::from_hex and Vec::from_hex: hex of any even length.
ScriptBuf_from_hex(s) ==
    IF Len(s) % 2 # 0 THEN Err([variant |-> "OddLengthString", len |-> Len(s)])
    ELSE IF FirstInvalidChar(s) # 0
         THEN Err([variant |-> "InvalidChar", at |-> FirstInvalidChar(s)])
    ELSE Ok(HexBytes(s))

\* WitnessVersion::try_from(u8): versions 0 to 16 exist.
WitnessVersion_try_from(v) ==
    IF v <= 16 THEN Ok([ty |-> "WitnessVersion", v |-> v])
    ELSE Err([variant |-> "TryFromError", invalid |-> v])

\* WitnessProgram::new: 2 to 40 bytes, and 20 or 32 bytes for version 0.
WitnessProgram_new(version, bytes) ==
    IF Len(bytes) < 2 \/ Len(bytes) > 40
    THEN Err([variant |-> "InvalidLength", len |-> Len(bytes)])
    ELSE IF version.v = 0 /\ Len(bytes) \notin {20, 32}
         THEN Err([variant |-> "InvalidSegwitV0Length", len |-> Len(bytes)])
    ELSE Ok([ty |-> "WitnessProgram", version |-> version, program |-> bytes])

\* Public keys and derivation paths that parse are given by table.
KnownPublicKeys ==
    {"0279be667ef9dcbbac55a06295ce870b07029bfcdb2dce28d959f2815b16f81798"}

PublicKey_from_str(s) ==
    IF s \in KnownPublicKeys THEN Ok([ty |-> "PublicKey", key |-> s])
    ELSE Err([variant |-> "ParsePublicKeyError", input |-> s])

KnownDerivationPaths == {"m/0'/0'/7'"}

DerivationPath_from_str(s) ==
    IF s \in KnownDerivationPaths THEN Ok([ty |-> "DerivationPath", path |-> s])
    ELSE Err([variant |-> "bip32::Error", input |-> s])

Hash160_from_str(s) ==
    LET r == HexToArray(s, Hash160Bytes)
    IN  IF IsOk(r) THEN Ok([ty |-> "hash160::Hash", bytes |-> r.val]) ELSE r

AddressPurpose_into_model(self) ==
    CASE self.variant = "Send" -> ModelEnum("AddressPurpose", "Send")
      [] self.variant = "Receive" -> ModelEnum("AddressPurpose", "Receive")

GetAddressInfoLabel_into_model(self) ==
    Ok([name |-> self.name, purpose |-> AddressPurpose_into_model(self.purpose)])

\* self.labels.into_model(): every label converted, in list order.
RECURSIVE GetAddressInfo_labels(_, _, _)
GetAddressInfo_labels(labels, i, acc) ==
    IF i > Len(labels) THEN Ok(acc)
    ELSE LET l == GetAddressInfoLabel_into_model(labels[i])
         IN  IF IsErr(l) THEN l
             ELSE GetAddressInfo_labels(labels, i + 1, Append(acc, l.val))

\* GetAddressInfoEmbedded::into_model is todo!(): it panics on every record.
GetAddressInfoEmbedded_into_model(self) ==
    Panic("not yet implemented: Copy GetAddressInfo::into_model once that builds")

\* Mutant: the version is converted whenever it is present, with or without
\* a program.
GetAddressInfo_witness_lone_version(self) ==
    IF self.witness_version.is_some
    THEN LET v == self.witness_version.val
             witness_version == WitnessVersion_try_from(v % 256)
             a1 == <<Field("witness_version")>>
         IN  IF v > 255 \/ v < 0
             THEN Outcome(Err(Variant("WitnessVersionValue", v)), a1)
             ELSE IF IsErr(witness_version)
                  THEN Outcome(Err(Variant("WitnessVersion", witness_version.err)), a1)
             ELSE Outcome(Ok([witness_version |-> Some(witness_version.val),
                              witness_program |-> None]), a1)
    ELSE Outcome(Ok([witness_version |-> None, witness_program |-> None]), <<>>)

\* Mutant: the version is narrowed to 8 bits without the range check.
GetAddressInfo_witness_wrapping(self) ==
    IF self.witness_version.is_some /\ self.witness_program.is_some
    THEN LET v == self.witness_version.val
             witness_version == WitnessVersion_try_from(v % 256)
             bytes == ScriptBuf_from_hex(self.witness_program.val)
             witness_program == WitnessProgram_new(witness_version.val, bytes.val)
             a1 == <<Field("witness_version")>>
             a2 == Append(a1, Field("witness_program"))
         IN  IF IsErr(witness_version)
             THEN Outcome(Err(Variant("WitnessVersion", witness_version.err)), a1)
             ELSE IF IsErr(bytes)
                  THEN Outcome(Err(Variant("WitnessProgramBytes", bytes.err)), a2)
             ELSE IF IsErr(witness_program)
                  THEN Outcome(Err(Variant("WitnessProgram", witness_program.err)), a2)
             ELSE Outcome(Ok([witness_version |-> Some(witness_version.val),
                              witness_program |-> Some(witness_program.val)]), a2)
    ELSE Outcome(Ok([witness_version |-> None, witness_program |-> None]), <<>>)

\* The match on (witness_version, witness_program).
GetAddressInfo_witness(self) ==
    IF self.witness_version.is_some /\ self.witness_program.is_some
    THEN LET v == self.witness_version.val
             witness_version == WitnessVersion_try_from(v % 256)
             bytes == ScriptBuf_from_hex(self.witness_program.val)
             witness_program == WitnessProgram_new(witness_version.val, bytes.val)
             a1 == <<Field("witness_version")>>
             a2 == Append(a1, Field("witness_program"))
         IN  IF v > 255 \/ v < 0
             THEN Outcome(Err(Variant("WitnessVersionValue", v)), a1)
             ELSE IF IsErr(witness_version)
                  THEN Outcome(Err(Variant("WitnessVersion", witness_version.err)), a1)
             ELSE IF IsErr(bytes)
                  THEN Outcome(Err(Variant("WitnessProgramBytes", bytes.err)), a2)
             ELSE IF IsErr(witness_program)
                  THEN Outcome(Err(Variant("WitnessProgram", witness_program.err)), a2)
             ELSE Outcome(Ok([witness_version |-> Some(witness_version.val),
                              witness_program |-> Some(witness_program.val)]), a2)
    ELSE Outcome(Ok([witness_version |-> None, witness_program |-> None]), <<>>)

\* self.pubkeys.iter().map(parse).collect::<Result<Vec<_>, _>>(): the keys
\* are parsed in list order up to the first that fails.
RECURSIVE GetAddressInfo_pubkeys(_, _, _, _)
GetAddressInfo_pubkeys(pubkeys, i, acc, a) ==
    IF i > Len(pubkeys) THEN Outcome(Ok(acc), a)
    ELSE LET k == PublicKey_from_str(pubkeys[i])
             a1 == Append(a, Elem("pubkeys", i))
         IN  IF IsErr(k) THEN Outcome(Err(Variant("Pubkeys", k.err)), a1)
             ELSE GetAddressInfo_pubkeys(pubkeys, i + 1, Append(acc, k.val), a1)

GetAddressInfo_into_model(self) ==
    LET address == Address_from_str(self.address)
        a1 == <<Field("address")>>
        script_pubkey == ScriptBuf_from_hex(self.script_pubkey)
        a2 == Append(a1, Field("script_pubkey"))
        witness == GetAddressInfo_witness(self)
        a3 == a2 \o witness.applied
        redeem_script == ScriptBuf_from_hex(self.hex.val)
        a4 == IF self.hex.is_some THEN Append(a3, Field("hex")) ELSE a3
        pubkeys == GetAddressInfo_pubkeys(self.pubkeys, 1, <<>>, a4)
        a5 == pubkeys.applied
        pubkey == PublicKey_from_str(self.pubkey.val)
        a6 == IF self.pubkey.is_some THEN Append(a5, Field("pubkey")) ELSE a5
        embedded == GetAddressInfoEmbedded_into_model(self.embedded.val)
        a7 == IF self.embedded.is_some THEN Append(a6, Field("embedded")) ELSE a6
        hd_key_path == DerivationPath_from_str(self.hd_key_path.val)
        a8 == IF self.hd_key_path.is_some THEN Append(a7, Field("hd_key_path")) ELSE a7
        hd_seed_id == Hash160_from_str(self.hd_seed_id.val)
        a9 == IF self.hd_seed_id.is_some THEN Append(a8, Field("hd_seed_id")) ELSE a8
        labels == GetAddressInfo_labels(self.labels, 1, <<>>)
        a10 == Append(a9, Field("labels"))
    IN  IF IsErr(address) THEN Outcome(Err(Variant("Address", address.err)), a1)
        ELSE IF IsErr(script_pubkey)
             THEN Outcome(Err(Variant("ScriptPubkey", script_pubkey.err)), a2)
        ELSE IF IsErr(witness.res) THEN Outcome(witness.res, a3)
        ELSE IF self.hex.is_some /\ IsErr(redeem_script)
             THEN Outcome(Err(Variant("Hex", Variant("Hex", redeem_script.err))), a4)
        ELSE IF IsErr(pubkeys.res) THEN pubkeys
        ELSE IF self.pubkey.is_some /\ IsErr(pubkey)
             THEN Outcome(Err(Variant("Pubkey", pubkey.err)), a6)
        ELSE IF self.embedded.is_some /\ ~IsOk(embedded) THEN Outcome(embedded, a7)
        ELSE IF self.hd_key_path.is_some /\ IsErr(hd_key_path)
             THEN Outcome(Err(Variant("HdKeyPath", hd_key_path.err)), a8)
        ELSE IF self.hd_seed_id.is_some /\ IsErr(hd_seed_id)
             THEN Outcome(Err(Variant("HdSeedId", hd_seed_id.err)), a9)
        ELSE IF IsErr(labels) THEN Outcome(Err(Variant("Labels", labels.err)), a10)
        ELSE Outcome(
                Ok([address |-> assume_checked(address.val),
                    script_pubkey |-> self.script_pubkey,
                    is_mine |-> self.is_mine,
                    is_watch_only |-> self.is_watch_only,
                    is_script |-> self.is_script,
                    is_witness |-> self.is_witness,
                    witness_version |-> witness.res.val.witness_version,
                    witness_program |-> witness.res.val.witness_program,
                    script |-> self.script,
                    hex |-> IF self.hex.is_some THEN Some(redeem_script.val) ELSE None,
                    pubkeys |-> pubkeys.res.val,
                    sigs_required |-> self.sigs_required,
                    pubkey |-> IF self.pubkey.is_some THEN Some(pubkey.val) ELSE None,
                    embedded |-> IF self.embedded.is_some THEN Some(embedded.val) ELSE None,
                    is_compressed |-> self.is_compressed,
                    label |-> self.label,
                    timestamp |-> self.timestamp,
                    hd_key_path |-> IF self.hd_key_path.is_some
                                    THEN Some(hd_key_path.val) ELSE None,
                    hd_seed_id |-> IF self.hd_seed_id.is_some
                                   THEN Some(hd_seed_id.val) ELSE None,
                    labels |-> labels.val]),
                a10)

(***************************************************************************)
(* getbalance, getreceivedbyaddress, getunconfirmedbalance                 *)
(***************************************************************************)
\* Mutant: the balance converted to the signed amount type.
GetBalance_into_model_signed(self) ==
    LET amount == SignedAmount_from_btc(self)
    IN  IF IsErr(amount) THEN amount
        ELSE Ok([ty |-> "GetBalance", amount |-> [ty |-> "Amount", sat |-> amount.val.sat]])

GetBalance_into_model(self) ==
    LET amount == Amount_from_btc(self)
    IN  IF IsErr(amount) THEN amount ELSE Ok([ty |-> "GetBalance", amount |-> amount.val])

GetBalance_balance(self) ==
    LET model == GetBalance_into_model(self)
    IN  IF IsErr(model) THEN model ELSE Ok(model.val.amount)

GetReceivedByAddress_into_model(self) ==
    LET amount == Amount_from_btc(self)
    IN  IF IsErr(amount) THEN amount
        ELSE Ok([ty |-> "GetReceivedByAddress", amount |-> amount.val])

GetUnconfirmedBalance_into_model(self) ==
    LET amount == Amount_from_btc(self)
    IN  IF IsErr(amount) THEN amount
        ELSE Ok([ty |-> "GetUnconfirmedBalance", amount |-> amount.val])

(***************************************************************************)
(* getwalletinfo and the fee-rate helper btc_per_kb                        *)
(***************************************************************************)
\* A decimal divided by 1000: the whole subunits of the quotient and, in
\* `sub`, the four decimals after the eighth as one number.
Div1000(x) == Dec(x.neg, x.sat \div 1000, (x.sat % 1000) * 10 + x.sub)

\* FeeRate::from_sat_per_vb: the rate is kept per 1000 weight units, a
\* virtual byte being four weight units.
FeeRate_from_sat_per_vb(n) == [ty |-> "FeeRate", sat_per_kwu |-> 250 * n]

\* btc_per_kb: the rate is divided by 1000, the quotient converted as an
\* amount of the unit (`?` returns its error), the subunits taken per
\* virtual byte.
btc_per_kb(fee_rate) ==
    LET rate == Div1000(fee_rate)
        amount == Amount_from_btc(rate)
    IN  IF IsErr(amount) THEN amount
        ELSE Ok(FeeRate_from_sat_per_vb(amount.val.sat))

\* `.into()` on an i64 field: From is implemented only for targets that hold
\* every value of the source type, so the number is kept as it is.
i64_into_narrowing(v) == v % 65536

i64_into(v) == v

\* GetWalletInfo::into_model.  The result of btc_per_kb is stored as it is:
\* the statement has no `?` and the error type has no variant for the field.
GetWalletInfo_into_model(self) ==
    LET balance == Amount_from_btc(self.balance)
        a1 == <<Field("balance")>>
        unconfirmed_balance == Amount_from_btc(self.unconfirmed_balance)
        a2 == Append(a1, Field("unconfirmed_balance"))
        immature_balance == Amount_from_btc(self.immature_balance)
        a3 == Append(a2, Field("immature_balance"))
        pay_tx_fee == btc_per_kb(self.pay_tx_fee)
        a4 == Append(a3, Field("pay_tx_fee"))
        hd_seed_id == Hash160_from_str(self.hd_seed_id.val)
        a5 == IF self.hd_seed_id.is_some THEN Append(a4, Field("hd_seed_id")) ELSE a4
    IN  IF IsErr(balance) THEN Outcome(Err(Variant("Balance", balance.err)), a1)
        ELSE IF IsErr(unconfirmed_balance)
             THEN Outcome(Err(Variant("UnconfirmedBalance", unconfirmed_balance.err)), a2)
        ELSE IF IsErr(immature_balance)
             THEN Outcome(Err(Variant("ImmatureBalance", immature_balance.err)), a3)
        ELSE IF self.hd_seed_id.is_some /\ IsErr(hd_seed_id)
             THEN Outcome(Err(Variant("HdSeedId", hd_seed_id.err)), a5)
        ELSE Outcome(
                Ok([wallet_name |-> self.wallet_name,
                    wallet_version |-> self.wallet_version,
                    balance |-> balance.val,
                    unconfirmed_balance |-> unconfirmed_balance.val,
                    immature_balance |-> immature_balance.val,
                    tx_count |-> i64_into(self.tx_count),
                    keypool_oldest |-> i64_into(self.keypool_oldest),
                    keypool_size |-> i64_into(self.keypool_size),
                    keypool_size_hd_internal |-> i64_into(self.keypool_size_hd_internal),
                    unlocked_until |-> self.unlocked_until,
                    pay_tx_fee |-> pay_tx_fee,
                    hd_seed_id |-> IF self.hd_seed_id.is_some
                                   THEN Some(hd_seed_id.val) ELSE None,
                    private_keys_enabled |-> self.private_keys_enabled]),
                a5)

(***************************************************************************)
(* listreceivedbyaddress, listsinceblock                                   *)
(***************************************************************************)
\* Bytes of a block hash.
BlockHashBytes == 32

BlockHash_from_str(s) ==
    LET r == HexToArray(s, BlockHashBytes)
    IN  IF IsOk(r) THEN Ok([ty |-> "BlockHash", bytes |-> r.val]) ELSE r

\* self.txids.iter().map(parse::<Txid>).collect::<Result<Vec<_>, _>>(): the
\* ids are parsed in list order up to the first that fails.
RECURSIVE ListReceivedByAddress_txids(_, _, _, _)
ListReceivedByAddress_txids(txids, i, acc, a) ==
    IF i > Len(txids) THEN Outcome(Ok(acc), a)
    ELSE LET txid == Txid_from_str(txids[i])
             a1 == Append(a, Elem("txids", i))
         IN  IF IsErr(txid) THEN Outcome(Err(Variant("Txids", txid.err)), a1)
             ELSE ListReceivedByAddress_txids(txids, i + 1, Append(acc, txid.val), a1)

\* ListReceivedByAddress::into_model, written on the fields of one list item.
ListReceivedByAddress_into_model(self) ==
    LET address == Address_from_str(self.address)
        a1 == <<Field("address")>>
        amount == Amount_from_btc(self.amount)
        a2 == Append(a1, Field("amount"))
        txids == ListReceivedByAddress_txids(self.txids, 1, <<>>, a2)
    IN  IF IsErr(address) THEN Outcome(Err(Variant("Address", address.err)), a1)
        ELSE IF IsErr(amount) THEN Outcome(Err(Variant("Amount", amount.err)), a2)
        ELSE IF IsErr(txids.res) THEN txids
        ELSE Outcome(
                Ok([involves_watch_only |-> self.involves_watch_only,
                    address |-> assume_checked(address.val),
                    amount |-> amount.val,
                    confirmations |-> self.confirmations,
                    label |-> self.label,
                    txids |-> txids.res.val]),
                txids.applied)

\* ListSinceBlock::into_model.  The item type ListSinceBlockTransaction has
\* no conversion yet, so the two lists are converted only when empty.
ListSinceBlock_into_model(self) ==
    LET transactions == Ok(<<>>)
        removed == Ok(<<>>)
        a2 == <<Field("transactions"), Field("removed")>>
        last_block == BlockHash_from_str(self.last_block)
        a3 == Append(a2, Field("last_block"))
    IN  IF IsErr(last_block)
        THEN Outcome(Err(Variant("LastBlock", last_block.err)), a3)
        ELSE Outcome(Ok([transactions |-> transactions.val,
                         removed |-> removed.val,
                         last_block |-> last_block.val]), a3)

(***************************************************************************)
(* bumpfee                                                                 *)
(***************************************************************************)
\* Amount::from_sat: the amount of that many subunits.
Amount_from_sat(n) == [ty |-> "Amount", sat |-> n]

\* A wire integer that was not converted.
u64(n) == [ty |-> "u64", sat |-> n]

\* BumpFee::into_model.  The converted original fee is bound to the name
\* `originl_fee`; the model is built from the names `original_fee`, which is
\* the wire field still, and `fee`, which the second `let` has rebound.
BumpFee_into_model(self) ==
    LET txid == Txid_from_str(self.txid)
        a1 == <<Field("txid")>>
        originl_fee == Amount_from_sat(self.original_fee)
        original_fee == u64(self.original_fee)
        fee == Amount_from_sat(self.fee)
    IN  IF IsErr(txid) THEN Outcome(Err(Variant("Txid", txid.err)), a1)
        ELSE Outcome(Ok([txid |-> txid.val, original_fee |-> original_fee,
                         fee |-> fee, errors |-> self.errors]), a1)

(***************************************************************************)
(* getaddressesbylabel                                                     *)
(***************************************************************************)
\* The key strings of the wire maps, in ascending byte order (digits before
\* upper case before lower case): the order a BTreeMap<String, _> iterates.
WireKeyOrder ==
    <<"132F25rTsvBdp9JzLLBHP5mvGY66i1xdiM", "32iVBEu4dxkUQk9dJbZUiBiQdmypcEyJRf",
      "BC1QW508D6QEJXTDG4Y5R3ZARVARY0C5XW7KV8F3T4",
      "bc1qw508d6qejxtdg4y5r3zarvary0c5xw7kv8f3t4", "not-an-address">>

KeyRank(k) == CHOOSE i \in 1..Len(WireKeyOrder) : WireKeyOrder[i] = k

\* self.addresses.iter(): the entries of the map in ascending key order.
BTreeMap_iter(m) ==
    [i \in 1..Cardinality(DOMAIN m) |->
        CHOOSE k \in DOMAIN m :
            Cardinality({j \in DOMAIN m : KeyRank(j) < KeyRank(k)}) = i - 1]

\* addresses.insert(address, purpose): an entry with an equal key is replaced.
BTreeMap_insert(m, k, v) ==
    [a \in DOMAIN m \cup {k} |-> IF a = k THEN v ELSE m[a]]

\* The loop of GetAddressesByLabel::into_model.  The two `?` have no
\* map_err: a parse error leaves the function as it is.
RECURSIVE GetAddressesByLabel_loop(_, _, _, _, _)
GetAddressesByLabel_loop(self, keys, i, addresses, a) ==
    IF i > Len(keys) THEN Outcome(Ok([addresses |-> addresses]), a)
    ELSE LET k == keys[i]
             address == Address_from_str(k)
             purpose == AddressPurpose_into_model(self.addresses[k])
             a1 == Append(a, Elem("addresses", i))
         IN  IF IsErr(address) THEN Outcome(address, a1)
             ELSE GetAddressesByLabel_loop(self, keys, i + 1,
                      BTreeMap_insert(addresses, assume_checked(address.val), purpose),
                      a1)

GetAddressesByLabel_into_model(self) ==
    GetAddressesByLabel_loop(self, BTreeMap_iter(self.addresses), 1, <<>>, <<>>)

(***************************************************************************)
(* getnewaddress, sendtoaddress, dumpprivkey, createwallet, loadwallet     *)
(***************************************************************************)
\* A value returned by a function whose return type is no Result.
Returned(v) == [kind |-> "value", val |-> v]

GetNewAddress_into_model(self) ==
    LET address == Address_from_str(self)
    IN  IF IsErr(address) THEN address
        ELSE Ok([ty |-> "GetNewAddress", address |-> address.val])

GetNewAddress_address(self) ==
    LET model == GetNewAddress_into_model(self)
    IN  IF IsErr(model) THEN model ELSE Ok(model.val.address)

GetRawChangeAddress_into_model(self) ==
    LET address == Address_from_str(self)
    IN  IF IsErr(address) THEN address
        ELSE Ok([ty |-> "GetRawChangeAddress", address |-> assume_checked(address.val)])

SendToAddress_into_model(self) ==
    LET txid == Txid_from_str(self)
    IN  IF IsErr(txid) THEN txid ELSE Ok([ty |-> "SendToAddress", txid |-> txid.val])

\* Mutant: the accessor parses the string itself and reports its own error.
SendToAddress_txid_own_error(self) ==
    LET txid == Txid_from_str(self)
    IN  IF IsErr(txid) THEN Err(Variant("Txid", txid.err)) ELSE txid

SendToAddress_txid(self) ==
    LET model == SendToAddress_into_model(self)
    IN  IF IsErr(model) THEN model ELSE Ok(model.val.txid)

\* Private keys in wallet import format that parse are given by table.
KnownPrivateKeys == {"5HueCGU8rMjxEXxiPuD5BDku4MkFqeZyd4dZ1jvhTVqvbTLvyTJ"}

PrivateKey_from_str(s) ==
    IF s \in KnownPrivateKeys THEN Ok([ty |-> "PrivateKey", wif |-> s])
    ELSE Err([variant |-> "FromWifError", input |-> s])

DumpPrivKey_into_model(self) ==
    LET key == PrivateKey_from_str(self.key)
    IN  IF IsErr(key) THEN key ELSE Ok([ty |-> "DumpPrivKey", key |-> key.val])

\* The tail expression is the key of the model; the declared return type
\* is a Result, so the key comes back as the success value.
DumpPrivKey_key(self) ==
    LET model == DumpPrivKey_into_model(self)
    IN  IF IsErr(model) THEN model ELSE Ok(model.val.key)

\* Mutant: an empty warning gives an empty list.
CreateWallet_into_model_skip_empty(self) ==
    Returned([ty |-> "CreateWallet", name |-> self.name,
              warnings |-> IF self.warning = "" THEN <<>> ELSE <<self.warning>>])

CreateWallet_into_model(self) ==
    Returned([ty |-> "CreateWallet", name |-> self.name, warnings |-> <<self.warning>>])

CreateWallet_name(self) == Returned(CreateWallet_into_model(self).val.name)

LoadWallet_into_model(self) ==
    Returned([ty |-> "LoadWallet", name |-> self.name, warnings |-> <<self.warning>>])

LoadWallet_name(self) == Returned(LoadWallet_into_model(self).val.name)

(***************************************************************************)
(* The client helpers.  `reply` is what self.call returned: a transport    *)
(* error or the decoded wire record.                                       *)
(***************************************************************************)
\* Client::new_address and Client::new_address_with_type: the transport
\* error is passed on with `?`, a string that is no address panics in expect.
Client_new_address(reply) ==
    IF IsErr(reply) THEN reply
    ELSE LET address == Address_from_str(reply.val)
         IN  IF IsErr(address) THEN Panic("assume the address is valid")
             ELSE Ok(assume_checked(address.val))

Client_new_address_with_type(ty, reply) ==
    IF IsErr(reply) THEN reply
    ELSE LET address == Address_from_str(reply.val)
         IN  IF IsErr(address) THEN Panic("assume the address is valid")
             ELSE Ok(assume_checked(address.val))

\* Client::send_to_address: the arguments of the call, the amount rendered
\* as a decimal.
Client_send_to_address_args(address, amount) ==
    <<address.payload, Amount_to_btc(amount), "", "">>

(***************************************************************************)
(* Wire values the transport can deliver.                                  *)
(***************************************************************************)
\* Decimal values: whole numbers of subunits of either sign, values with a
\* ninth decimal, and values beyond the range of one or both amount types.
WireDecimals ==
    {Dec(FALSE, 0, 0), Dec(FALSE, 515000, 0), Dec(TRUE, 10000, 0),
     Dec(FALSE, 10000, 0), Dec(FALSE, 1, 5), Dec(TRUE, 0, 5),
     Dec(FALSE, SignedAmountMax + 1, 0), Dec(TRUE, SignedAmountMax + 1, 0),
     Dec(FALSE, AmountMax + 1, 0)}

SeqsUpTo(S, n) == UNION {[1..k -> S] : k \in 0..n}

ValidTxid == Rep("a", 30) \o Rep("B", 30) \o <<"0", "1", "9", "f">>

WireTxids ==
    {ValidTxid,                                  \* 32 bytes
     Rep("a", 60),                               \* valid hex, 30 bytes
     Rep("a", 63) \o <<"g">>,                    \* 64 characters, one no hex digit
     Rep("1", 66)}                               \* valid hex, 33 bytes

WireTxHexes ==
    {ValidTxHex,
     SubSeq(ValidTxHex, 1, 40),                  \* valid hex, no transaction
     <<"z">> \o SubSeq(ValidTxHex, 2, Len(ValidTxHex))}

WireDetails ==
    {[account |-> "", address |-> "132F25rTsvBdp9JzLLBHP5mvGY66i1xdiM",
      category |-> WireEnum("TransactionCategory", "Send"),
      amount |-> Dec(TRUE, 10000, 0), label |-> None, vout |-> 0,
      fee |-> Some(Dec(TRUE, 226, 0)), abandoned |-> Some(FALSE)],
     [account |-> "", address |-> "132F25rTsvBdp9JzLLBHP5mvGY66i1xdiM",
      category |-> WireEnum("TransactionCategory", "Receive"),
      amount |-> Dec(FALSE, 10000, 0), label |-> Some("tips"), vout |-> 0,
      fee |-> None, abandoned |-> None],
     [account |-> "acct", address |-> "not-an-address",
      category |-> WireEnum("TransactionCategory", "Receive"),
      amount |-> Dec(FALSE, 10000, 0), label |-> None, vout |-> 1,
      fee |-> Some(Dec(FALSE, 0, 5)), abandoned |-> None],
     [account |-> "", address |-> "32iVBEu4dxkUQk9dJbZUiBiQdmypcEyJRf",
      category |-> WireEnum("TransactionCategory", "Receive"),
      amount |-> Dec(FALSE, 1, 5), label |-> None, vout |-> 1,
      fee |-> None, abandoned |-> None],
     [account |-> "", address |-> "32iVBEu4dxkUQk9dJbZUiBiQdmypcEyJRf",
      category |-> WireEnum("TransactionCategory", "Send"),
      amount |-> Dec(TRUE, 10000, 0), label |-> None, vout |-> 2147483647,
      fee |-> Some(Dec(TRUE, 0, 5)), abandoned |-> Some(TRUE)],
     [account |-> "savings", address |-> "132F25rTsvBdp9JzLLBHP5mvGY66i1xdiM",
      category |-> WireEnum("TransactionCategory", "Receive"),
      amount |-> Dec(FALSE, 515000, 0), label |-> None, vout |-> 3,
      fee |-> None, abandoned |-> None]}

WireGetTransactions ==
    {[account |-> ig.account, amount |-> amount, fee |-> fee,
      confirmations |-> cp.confirmations,
      block_hash |-> ig.block_hash, block_index |-> ig.block_index,
      block_time |-> ig.block_time,
      txid |-> txid, time |-> cp.time, time_received |-> cp.time_received,
      bip125_replaceable |-> cp.bip125_replaceable,
      details |-> details, hex |-> hex] :
        amount \in {Dec(TRUE, 10000, 0), Dec(FALSE, 0, 0), Dec(FALSE, 1, 5),
                    Dec(TRUE, SignedAmountMax + 1, 0)},
        fee \in {None, Some(Dec(TRUE, 226, 0)), Some(Dec(TRUE, 0, 5))},
        txid \in WireTxids \ {Rep("1", 66)},
        hex \in WireTxHexes,
        details \in SeqsUpTo(WireDetails, MaxDetails),
        cp \in {[confirmations |-> 0, time |-> 1700000000,
                 time_received |-> 1700000001,
                 bip125_replaceable |-> WireEnum("Bip125Replacable", "No")],
                [confirmations |-> 2147483647, time |-> 0, time_received |-> 0,
                 bip125_replaceable |-> WireEnum("Bip125Replacable", "Unknown")]},
        ig \in {[account |-> "", block_hash |-> Rep("0", 64), block_index |-> 0,
                 block_time |-> 0],
                [account |-> "savings", block_hash |-> <<"x", "y">>,
                 block_index |-> -1, block_time |-> 2147483647]}}

\* getaddressinfo records: a record that converts, with at most
\* MaxDeviations of its fields replaced by one of their other values.
MaxDeviations == 2

ValidScriptHex == <<"7", "6", "a", "9", "1", "4">> \o Rep("0", 40) \o <<"8", "8", "a", "c">>

GetAddressInfoEmbedded_base ==
    [address |-> "132F25rTsvBdp9JzLLBHP5mvGY66i1xdiM",
     script_pubkey |-> ValidScriptHex,
     is_script |-> FALSE, is_witness |-> FALSE,
     witness_version |-> None, witness_program |-> None,
     script |-> None, hex |-> None, pubkeys |-> <<>>, sigs_required |-> None,
     pubkey |-> Some("0279be667ef9dcbbac55a06295ce870b07029bfcdb2dce28d959f2815b16f81798"),
     embedded |-> None, is_compressed |-> TRUE, label |-> "", labels |-> <<>>]

GetAddressInfo_base ==
    [address |-> "32iVBEu4dxkUQk9dJbZUiBiQdmypcEyJRf",
     script_pubkey |-> ValidScriptHex,
     is_mine |-> TRUE, is_watch_only |-> FALSE, is_script |-> TRUE,
     is_witness |-> TRUE,
     witness_version |-> Some(0),
     witness_program |-> Some(Rep("a", 40)),
     script |-> Some(WireEnum("GetAddressInfoScriptType", "ScriptHash")),
     hex |-> Some(ValidScriptHex),
     pubkeys |-> <<"0279be667ef9dcbbac55a06295ce870b07029bfcdb2dce28d959f2815b16f81798">>,
     sigs_required |-> Some(1),
     pubkey |-> Some("0279be667ef9dcbbac55a06295ce870b07029bfcdb2dce28d959f2815b16f81798"),
     embedded |-> None,
     is_compressed |-> TRUE, label |-> "", account |-> "",
     timestamp |-> Some(1700000000),
     hd_key_path |-> Some("m/0'/0'/7'"),
     hd_seed_id |-> Some(Rep("c", 40)),
     hd_master_key_id |-> Some(Rep("c", 40)),
     labels |-> <<[name |-> "", purpose |-> WireEnum("AddressPurpose", "Receive")]>>]

\* The fields that are varied and the number of other values of each.
GetAddressInfo_alternatives ==
    [address |-> 1, script_pubkey |-> 2, witness_version |-> 4,
     witness_program |-> 3, script |-> 1, hex |-> 2, pubkeys |-> 2,
     pubkey |-> 2, embedded |-> 2, account |-> 1, timestamp |-> 1,
     hd_key_path |-> 2, hd_seed_id |-> 2, hd_master_key_id |-> 2, labels |-> 1]

GetAddressInfo_alternative(f, k) ==
    CASE f = "address" -> "not-an-address"
      [] f = "script_pubkey" -> IF k = 1 THEN <<"z", "z">> ELSE <<"0">>
      [] f = "witness_version" ->
            IF k = 1 THEN None ELSE IF k = 2 THEN Some(17)
            ELSE IF k = 3 THEN Some(256) ELSE Some(-1)
      [] f = "witness_program" ->
            IF k = 1 THEN None ELSE IF k = 2 THEN Some(<<"x", "y">>)
            ELSE Some(<<"0", "0">>)
      [] f = "script" -> None
      [] f = "hex" -> IF k = 1 THEN None ELSE Some(<<"5", "1", "g", "g">>)
      [] f = "pubkeys" ->
            IF k = 1 THEN <<>>
            ELSE <<"0279be667ef9dcbbac55a06295ce870b07029bfcdb2dce28d959f2815b16f81798",
                   "not-a-key", "not-a-key-either">>
      [] f = "pubkey" -> IF k = 1 THEN None ELSE Some("not-a-key")
      [] f = "embedded" ->
            IF k = 1 THEN Some(GetAddressInfoEmbedded_base)
            ELSE Some([GetAddressInfoEmbedded_base EXCEPT !.script_pubkey = <<"z", "z">>])
      [] f = "account" -> "savings"
      [] f = "timestamp" -> None
      [] f = "hd_key_path" -> IF k = 1 THEN None ELSE Some("m//x")
      [] f = "hd_seed_id" -> IF k = 1 THEN None ELSE Some(Rep("c", 38))
      [] f = "hd_master_key_id" -> IF k = 1 THEN None ELSE Some(Rep("d", 40))
      [] f = "labels" -> <<>>

WireGetAddressInfos ==
    UNION {
        {[f \in DOMAIN GetAddressInfo_base |->
              IF f \in D THEN GetAddressInfo_alternative(f, g[f])
              ELSE GetAddressInfo_base[f]] :
            g \in {h \in [D -> 1..4] :
                      \A f \in D : h[f] <= GetAddressInfo_alternatives[f]}} :
        D \in {E \in SUBSET DOMAIN GetAddressInfo_alternatives :
                  Cardinality(E) <= MaxDeviations}}

WireAddressStrings ==
    {"132F25rTsvBdp9JzLLBHP5mvGY66i1xdiM", "32iVBEu4dxkUQk9dJbZUiBiQdmypcEyJRf",
     "not-an-address", ""}

WireWallets ==
    [name : {"", "wallet-1"}, warning : {"", "unknown option"}]

WireDumpPrivKeys ==
    [key : {"5HueCGU8rMjxEXxiPuD5BDku4MkFqeZyd4dZ1jvhTVqvbTLvyTJ", "not-a-key"}]

\* What the transport returns to getnewaddress.
TransportReplies ==
    {Err([variant |-> "Transport"])} \cup {Ok(a) : a \in WireAddressStrings}

AddressTypes == {"Legacy", "P2shSegwit", "Bech32"}

WireTransactionCategories ==
    {WireEnum("TransactionCategory", v) : v \in {"Send", "Receive"}}

WireBip125Replaceables ==
    {WireEnum("Bip125Replaceable", v) : v \in {"Yes", "No", "Unknown"}}

WireScriptTypes ==
    {WireEnum("GetAddressInfoScriptType", v) : v \in GetAddressInfoScriptType_variants}

\* Fee rates per 1000 virtual bytes: none, whole multiples of 1000 subunits,
\* 1234 subunits (0.00001234), a negative rate, a rate with a ninth decimal
\* and a rate whose thousandth is beyond the amount type.
WireFeeRates ==
    {Dec(FALSE, 0, 0), Dec(FALSE, 1000, 0), Dec(FALSE, 20000, 0),
     Dec(FALSE, 1234, 0), Dec(TRUE, 1000, 0), Dec(FALSE, 1000, 5)}

\* hd_seed_id and hd_master_key_id values.
WireSeedIds ==
    {None, Some(Rep("c", 40)), Some(Rep("c", 38)), Some(Rep("c", 39) \o <<"x">>),
     Some(Rep("C", 42))}

WireGetWalletInfos ==
    {[wallet_name |-> cp.wallet_name, wallet_version |-> cp.wallet_version,
      balance |-> balance, unconfirmed_balance |-> unconfirmed,
      immature_balance |-> immature,
      tx_count |-> cp.tx_count, keypool_oldest |-> cp.keypool_oldest,
      keypool_size |-> cp.keypool_size,
      keypool_size_hd_internal |-> cp.keypool_size_hd_internal,
      unlocked_until |-> cp.unlocked_until,
      pay_tx_fee |-> pay_tx_fee,
      hd_seed_id |-> hd_seed_id, hd_master_key_id |-> hd_master_key_id,
      private_keys_enabled |-> cp.private_keys_enabled] :
        balance \in {Dec(FALSE, 515000, 0), Dec(TRUE, 10000, 0)},
        unconfirmed \in {Dec(FALSE, 0, 0), Dec(FALSE, 1, 5)},
        immature \in {Dec(FALSE, 0, 0), Dec(FALSE, AmountMax + 1, 0)},
        pay_tx_fee \in WireFeeRates,
        hd_seed_id \in WireSeedIds,
        hd_master_key_id \in {None, Some(Rep("d", 40))},
        cp \in {[wallet_name |-> "wallet-1", wallet_version |-> 169900,
                 tx_count |-> 3, keypool_oldest |-> 1700000000,
                 keypool_size |-> 1000, keypool_size_hd_internal |-> 1000,
                 unlocked_until |-> 0, private_keys_enabled |-> TRUE],
                [wallet_name |-> "", wallet_version |-> -1,
                 tx_count |-> 2147483647, keypool_oldest |-> -2147483647,
                 keypool_size |-> -1, keypool_size_hd_internal |-> 65536,
                 unlocked_until |-> 2147483647,
                 private_keys_enabled |-> FALSE]}}

WireListReceivedByAddressItems ==
    {[involves_watch_only |-> FALSE, address |-> address, account |-> "",
      amount |-> amount, confirmations |-> 6, label |-> "", txids |-> txids] :
        address \in {"132F25rTsvBdp9JzLLBHP5mvGY66i1xdiM", "not-an-address"},
        amount \in {Dec(FALSE, 515000, 0), Dec(TRUE, 10000, 0)},
        txids \in SeqsUpTo(WireTxids, 2)}

WireListSinceBlocks ==
    {[transactions |-> <<>>, removed |-> <<>>, last_block |-> last_block] :
        last_block \in WireTxids \cup {Rep("0", 62) \o <<"Z", "Z">>, <<>>}}

(***************************************************************************)
(* Display and Error::source of the conversion errors.  A message is the   *)
(* sequence of the words of the format string (a name between backquotes   *)
(* is one word, written without them) and the value the message shows.     *)
(***************************************************************************)
Message(words, shown) == [words |-> words, shown |-> shown]

\* The format string "conversion of the `f` field failed".
ConversionFailed(f) == <<"conversion", "of", "the", f, "field", "failed">>

\* One arm of a match on an error: the variant its pattern names and the
\* words of its format string.
Arm(variant, words) == [variant |-> variant, words |-> words]

\* One arm of a match in source(): the variant its pattern names and whether
\* the arm returns the bound value.
SourceArm(variant, some) == [variant |-> variant, some |-> some]

GetAddressInfoError_fmt ==
    <<Arm("Address", ConversionFailed("address")),
      Arm("ScriptPubkey", ConversionFailed("script_pubkey")),
      Arm("WitnessVersion", <<"invalid", "witness", "version", "number:">>),
      Arm("WitnessVersion", ConversionFailed("witness_version")),
      Arm("WitnessProgram", ConversionFailed("witness_program")),
      Arm("Hex", ConversionFailed("hex")),
      Arm("Pubkeys", ConversionFailed("pubkeys")),
      Arm("Pubkey", <<"conversion", "of", "the", "pubkey", "failed">>),
      Arm("Embedded", ConversionFailed("embedde")),
      Arm("HdKeyPath", ConversionFailed("hd_key_path")),
      Arm("HdSeedId", ConversionFailed("hd_seed_id")),
      Arm("Labels", ConversionFailed("labels"))>>

GetAddressInfoError_source ==
    <<SourceArm("Address", TRUE), SourceArm("ScriptPubkey", TRUE),
      SourceArm("WitnessVersion", FALSE), SourceArm("WitnessVersion", TRUE),
      SourceArm("WitnessProgram", TRUE), SourceArm("Hex", TRUE),
      SourceArm("Pubkeys", TRUE), SourceArm("Pubkey", TRUE),
      SourceArm("Embedded", TRUE), SourceArm("HdKeyPath", TRUE),
      SourceArm("HdSeedId", TRUE), SourceArm("Labels", TRUE)>>

GetTransactionError_fmt ==
    <<Arm("Amount", ConversionFailed("amount")),
      Arm("Fee", ConversionFailed("fee")),
      Arm("Txid", ConversionFailed("txid")),
      Arm("Tx", ConversionFailed("hex")),
      Arm("Details", ConversionFailed("details"))>>

GetTransactionError_source ==
    <<SourceArm("Amount", TRUE), SourceArm("Fee", TRUE), SourceArm("Txid", TRUE),
      SourceArm("Tx", TRUE), SourceArm("Details", TRUE)>>

GetTransactionDetailError_fmt ==
    <<Arm("Address", ConversionFailed("address")),
      Arm("Amount", ConversionFailed("amount")),
      Arm("Fee", ConversionFailed("fee"))>>

GetTransactionDetailError_source ==
    <<SourceArm("Address", TRUE), SourceArm("Amount", TRUE), SourceArm("Fee", TRUE)>>

GetWalletInfoError_fmt ==
    <<Arm("Balance", ConversionFailed("balance")),
      Arm("UnconfirmedBalance", ConversionFailed("unconfirmed_balance")),
      Arm("ImmatureBalance", ConversionFailed("immature_balance")),
      Arm("HdSeedId", ConversionFailed("hd_seed_id"))>>

GetWalletInfoError_source ==
    <<SourceArm("Balance", TRUE), SourceArm("UnconfirmedBalance", TRUE),
      SourceArm("ImmatureBalance", TRUE), SourceArm("HdSeedId", TRUE)>>

ListReceivedByAddressError_fmt ==
    <<Arm("Address", ConversionFailed("address")),
      Arm("Amount", ConversionFailed("amount")),
      Arm("Txids", <<"conversion", "of", "the", "txid", "at", "index", "{}",
                     "in", "the", "txids", "field", "failed">>)>>

ListReceivedByAddressError_source ==
    <<SourceArm("Address", TRUE), SourceArm("Amount", TRUE), SourceArm("Txids", TRUE)>>

ListSinceBlockError_fmt ==
    <<Arm("Transactions", ConversionFailed("transactions")),
      Arm("Removed", ConversionFailed("removed")),
      Arm("LastBlock", ConversionFailed("last_block"))>>

ListSinceBlockError_source ==
    <<SourceArm("Transactions", TRUE), SourceArm("Removed", TRUE),
      SourceArm("LastBlock", TRUE)>>

\* The six error enums: the variants each declares, with the field the
\* declaration tags the variant with, and the arms of its two matches.
ConversionErrors ==
    [GetAddressInfoError |->
        [fields |-> [Address |-> "address", ScriptPubkey |-> "script_pubkey",
                     WitnessVersionValue |-> "witness_version",
                     WitnessVersion |-> "witness_version",
                     WitnessProgram |-> "witness_program", Hex |-> "hex",
                     Pubkeys |-> "pubkeys", Pubkey |-> "pubkey",
                     Embedded |-> "embedded", HdKeyPath |-> "hd_key_path",
                     HdSeedId |-> "hd_seed_id", Labels |-> "labels"],
         fmt |-> GetAddressInfoError_fmt, source |-> GetAddressInfoError_source],
     GetTransactionError |->
        [fields |-> [Amount |-> "amount", Fee |-> "fee", Txid |-> "txid",
                     Tx |-> "hex", Details |-> "details"],
         fmt |-> GetTransactionError_fmt, source |-> GetTransactionError_source],
     GetTransactionDetailError |->
        [fields |-> [Address |-> "address", Amount |-> "amount", Fee |-> "fee"],
         fmt |-> GetTransactionDetailError_fmt,
         source |-> GetTransactionDetailError_source],
     GetWalletInfoError |->
        [fields |-> [Balance |-> "balance",
                     UnconfirmedBalance |-> "unconfirmed_balance",
                     ImmatureBalance |-> "immature_balance",
                     HdSeedId |-> "hd_seed_id"],
         fmt |-> GetWalletInfoError_fmt, source |-> GetWalletInfoError_source],
     ListReceivedByAddressError |->
        [fields |-> [Address |-> "address", Amount |-> "amount", Txids |-> "txids"],
         fmt |-> ListReceivedByAddressError_fmt,
         source |-> ListReceivedByAddressError_source],
     ListSinceBlockError |->
        [fields |-> [Transactions |-> "transactions", Removed |-> "removed",
                     LastBlock |-> "last_block"],
         fmt |-> ListSinceBlockError_fmt, source |-> ListSinceBlockError_source]]

\* The index of the first arm whose pattern names the variant of e, 0 when
\* no arm does.
FirstArm(arms, e) ==
    LET hits == {i \in 1..Len(arms) : arms[i].variant = e.variant}
    IN  IF hits = {} THEN 0 ELSE CHOOSE i \in hits : \A j \in hits : i <= j

\* Display::fmt of an error of enum ty.
Display_fmt(ty, e) ==
    LET arms == ConversionErrors[ty].fmt
        i == FirstArm(arms, e)
    IN  IF i = 0 THEN Unmatched(e)
        ELSE Returned(Message(arms[i].words, e.cause))

\* Error::source of an error of enum ty.
Error_source(ty, e) ==
    LET arms == ConversionErrors[ty].source
        i == FirstArm(arms, e)
    IN  IF i = 0 THEN Unmatched(e)
        ELSE Returned(IF arms[i].some THEN Some(e.cause) ELSE None)

(***************************************************************************)
(* The state machine: a record is delivered, one operation consumes it.    *)
(***************************************************************************)
\* Errors of the six enums: every declared variant, wrapping one of two
\* causes (numbered); a WitnessVersionValue wraps the number out of range.
ErrorCauses(v) == IF v = "WitnessVersionValue" THEN {-1, 256} ELSE {1, 2}

ErrorValues ==
    UNION {UNION {{[ty |-> ty, err |-> Variant(v, c)] : c \in ErrorCauses(v)} :
                     v \in DOMAIN ConversionErrors[ty].fields} :
              ty \in DOMAIN ConversionErrors}

\* getaddressesbylabel replies: maps of at most MaxEntries entries.
MaxEntries == 2

WireAddressMaps ==
    UNION {{[addresses |-> m] :
               m \in [K -> {WireEnum("AddressPurpose", "Send"),
                            WireEnum("AddressPurpose", "Receive")}]} :
             K \in {S \in SUBSET {WireKeyOrder[i] : i \in 1..Len(WireKeyOrder)} :
                       Cardinality(S) <= MaxEntries}}

WireBumpFees ==
    [txid : WireTxids, original_fee : {0, 226, AmountMax},
     fee : {0, 452, AmountMax}, errors : {<<>>, <<"fee too low">>}]

NoInput == [none |-> TRUE]

Init ==
    /\ pc = "idle"
    /\ op = "none"
    /\ input = NoInput
    /\ result = NoInput
    /\ applied = <<>>

CallGetTransaction ==
    /\ pc = "idle"
    /\ \E x \in WireGetTransactions :
        LET o == GetTransaction_into_model(x)
        IN  /\ pc' = "done"
            /\ op' = "GetTransaction::into_model"
            /\ input' = x
            /\ result' = o.res
            /\ applied' = o.applied

CallGetTransactionDetail ==
    /\ pc = "idle"
    /\ \E x \in WireDetails :
        LET o == GetTransactionDetail_into_model(x)
        IN  /\ pc' = "done"
            /\ op' = "GetTransactionDetail::into_model"
            /\ input' = x
            /\ result' = o.res
            /\ applied' = o.applied

CallGetBalance ==
    /\ pc = "idle"
    /\ \E x \in WireDecimals :
        LET o == Outcome(GetBalance_into_model(x), <<Field("0")>>)
        IN  /\ pc' = "done"
            /\ op' = "GetBalance::into_model"
            /\ input' = x
            /\ result' = o.res
            /\ applied' = o.applied

CallGetBalanceBalance ==
    /\ pc = "idle"
    /\ \E x \in WireDecimals :
        LET o == Outcome(GetBalance_balance(x), <<Field("0")>>)
        IN  /\ pc' = "done"
            /\ op' = "GetBalance::balance"
            /\ input' = x
            /\ result' = o.res
            /\ applied' = o.applied

CallGetReceivedByAddress ==
    /\ pc = "idle"
    /\ \E x \in WireDecimals :
        LET o == Outcome(GetReceivedByAddress_into_model(x), <<Field("0")>>)
        IN  /\ pc' = "done"
            /\ op' = "GetReceivedByAddress::into_model"
            /\ input' = x
            /\ result' = o.res
            /\ applied' = o.applied

CallGetUnconfirmedBalance ==
    /\ pc = "idle"
    /\ \E x \in WireDecimals :
        LET o == Outcome(GetUnconfirmedBalance_into_model(x), <<Field("0")>>)
        IN  /\ pc' = "done"
            /\ op' = "GetUnconfirmedBalance::into_model"
            /\ input' = x
            /\ result' = o.res
            /\ applied' = o.applied

CallGetAddressInfo ==
    /\ pc = "idle"
    /\ \E x \in WireGetAddressInfos :
        LET o == GetAddressInfo_into_model(x)
        IN  /\ pc' = "done"
            /\ op' = "GetAddressInfo::into_model"
            /\ input' = x
            /\ result' = o.res
            /\ applied' = o.applied

CallGetAddressInfoEmbedded ==
    /\ pc = "idle"
    /\ \E x \in {GetAddressInfoEmbedded_base, [GetAddressInfoEmbedded_base EXCEPT !.script_pubkey = <<"z", "z">>]} :
        LET o == Outcome(GetAddressInfoEmbedded_into_model(x), <<>>)
        IN  /\ pc' = "done"
            /\ op' = "GetAddressInfoEmbedded::into_model"
            /\ input' = x
            /\ result' = o.res
            /\ applied' = o.applied

CallGetNewAddress ==
    /\ pc = "idle"
    /\ \E x \in WireAddressStrings :
        LET o == Outcome(GetNewAddress_into_model(x), <<Field("0")>>)
        IN  /\ pc' = "done"
            /\ op' = "GetNewAddress::into_model"
            /\ input' = x
            /\ result' = o.res
            /\ applied' = o.applied

CallGetNewAddressAddress ==
    /\ pc = "idle"
    /\ \E x \in WireAddressStrings :
        LET o == Outcome(GetNewAddress_address(x), <<Field("0")>>)
        IN  /\ pc' = "done"
            /\ op' = "GetNewAddress::address"
            /\ input' = x
            /\ result' = o.res
            /\ applied' = o.applied

CallSendToAddress ==
    /\ pc = "idle"
    /\ \E x \in WireTxids :
        LET o == Outcome(SendToAddress_into_model(x), <<Field("0")>>)
        IN  /\ pc' = "done"
            /\ op' = "SendToAddress::into_model"
            /\ input' = x
            /\ result' = o.res
            /\ applied' = o.applied

CallSendToAddressTxid ==
    /\ pc = "idle"
    /\ \E x \in WireTxids :
        LET o == Outcome(SendToAddress_txid(x), <<Field("0")>>)
        IN  /\ pc' = "done"
            /\ op' = "SendToAddress::txid"
            /\ input' = x
            /\ result' = o.res
            /\ applied' = o.applied

CallDumpPrivKey ==
    /\ pc = "idle"
    /\ \E x \in WireDumpPrivKeys :
        LET o == Outcome(DumpPrivKey_into_model(x), <<Field("key")>>)
        IN  /\ pc' = "done"
            /\ op' = "DumpPrivKey::into_model"
            /\ input' = x
            /\ result' = o.res
            /\ applied' = o.applied

CallDumpPrivKeyKey ==
    /\ pc = "idle"
    /\ \E x \in WireDumpPrivKeys :
        LET o == Outcome(DumpPrivKey_key(x), <<Field("key")>>)
        IN  /\ pc' = "done"
            /\ op' = "DumpPrivKey::key"
            /\ input' = x
            /\ result' = o.res
            /\ applied' = o.applied

CallCreateWallet ==
    /\ pc = "idle"
    /\ \E x \in WireWallets :
        LET o == Outcome(CreateWallet_into_model(x), <<>>)
        IN  /\ pc' = "done"
            /\ op' = "CreateWallet::into_model"
            /\ input' = x
            /\ result' = o.res
            /\ applied' = o.applied

CallCreateWalletName ==
    /\ pc = "idle"
    /\ \E x \in WireWallets :
        LET o == Outcome(CreateWallet_name(x), <<>>)
        IN  /\ pc' = "done"
            /\ op' = "CreateWallet::name"
            /\ input' = x
            /\ result' = o.res
            /\ applied' = o.applied

CallLoadWallet ==
    /\ pc = "idle"
    /\ \E x \in WireWallets :
        LET o == Outcome(LoadWallet_into_model(x), <<>>)
        IN  /\ pc' = "done"
            /\ op' = "LoadWallet::into_model"
            /\ input' = x
            /\ result' = o.res
            /\ applied' = o.applied

CallLoadWalletName ==
    /\ pc = "idle"
    /\ \E x \in WireWallets :
        LET o == Outcome(LoadWallet_name(x), <<>>)
        IN  /\ pc' = "done"
            /\ op' = "LoadWallet::name"
            /\ input' = x
            /\ result' = o.res
            /\ applied' = o.applied

ClientNewAddress ==
    /\ pc = "idle"
    /\ \E reply \in TransportReplies :
        LET o == Outcome(Client_new_address(reply), <<>>)
        IN  /\ pc' = "done"
            /\ op' = "Client::new_address"
            /\ input' = reply
            /\ result' = o.res
            /\ applied' = o.applied

ClientNewAddressWithType ==
    /\ pc = "idle"
    /\ \E ty \in AddressTypes, reply \in TransportReplies :
        LET o == Outcome(Client_new_address_with_type(ty, reply), <<>>)
        IN  /\ pc' = "done"
            /\ op' = "Client::new_address_with_type"
            /\ input' = [ty |-> ty, reply |-> reply]
            /\ result' = o.res
            /\ applied' = o.applied

ClientSendToAddress ==
    /\ pc = "idle"
    /\ \E a \in KnownAddresses, sat \in {0, 10000, 515000, AmountMax} :
        LET address == assume_checked(Address_from_str(a).val)
            amount == [ty |-> "Amount", sat |-> sat]
        IN  /\ pc' = "done"
            /\ op' = "Client::send_to_address"
            /\ input' = [address |-> address, amount |-> amount]
            /\ result' = Returned(Client_send_to_address_args(address, amount))
            /\ applied' = <<>>

CallTransactionCategory ==
    /\ pc = "idle"
    /\ \E x \in WireTransactionCategories :
        LET o == Outcome(Ok(TransactionCategory_into_model(x)), <<>>)
        IN  /\ pc' = "done"
            /\ op' = "TransactionCategory::into_model"
            /\ input' = x
            /\ result' = o.res
            /\ applied' = o.applied

CallBip125Replaceable ==
    /\ pc = "idle"
    /\ \E x \in WireBip125Replaceables :
        LET o == Outcome(Ok(Bip125Replaceable_into_model(x)), <<>>)
        IN  /\ pc' = "done"
            /\ op' = "Bip125Replaceable::into_model"
            /\ input' = x
            /\ result' = o.res
            /\ applied' = o.applied

CallGetAddressInfoScriptType ==
    /\ pc = "idle"
    /\ \E x \in WireScriptTypes :
        LET o == Outcome(GetAddressInfoScriptType_into_model(x), <<>>)
        IN  /\ pc' = "done"
            /\ op' = "GetAddressInfoScriptType::into_model"
            /\ input' = x
            /\ result' = o.res
            /\ applied' = o.applied

CallGetRawChangeAddress ==
    /\ pc = "idle"
    /\ \E x \in WireAddressStrings :
        LET o == Outcome(GetRawChangeAddress_into_model(x), <<Field("0")>>)
        IN  /\ pc' = "done"
            /\ op' = "GetRawChangeAddress::into_model"
            /\ input' = x
            /\ result' = o.res
            /\ applied' = o.applied

CallBtcPerKb ==
    /\ pc = "idle"
    /\ \E x \in WireFeeRates \cup WireDecimals :
        LET o == Outcome(btc_per_kb(x), <<>>)
        IN  /\ pc' = "done"
            /\ op' = "btc_per_kb"
            /\ input' = x
            /\ result' = o.res
            /\ applied' = o.applied

CallGetWalletInfo ==
    /\ pc = "idle"
    /\ \E x \in WireGetWalletInfos :
        LET o == GetWalletInfo_into_model(x)
        IN  /\ pc' = "done"
            /\ op' = "GetWalletInfo::into_model"
            /\ input' = x
            /\ result' = o.res
            /\ applied' = o.applied

CallListReceivedByAddress ==
    /\ pc = "idle"
    /\ \E x \in WireListReceivedByAddressItems :
        LET o == ListReceivedByAddress_into_model(x)
        IN  /\ pc' = "done"
            /\ op' = "ListReceivedByAddress::into_model"
            /\ input' = x
            /\ result' = o.res
            /\ applied' = o.applied

CallListSinceBlock ==
    /\ pc = "idle"
    /\ \E x \in WireListSinceBlocks :
        LET o == ListSinceBlock_into_model(x)
        IN  /\ pc' = "done"
            /\ op' = "ListSinceBlock::into_model"
            /\ input' = x
            /\ result' = o.res
            /\ applied' = o.applied

CallDisplayFmt ==
    /\ pc = "idle"
    /\ \E x \in ErrorValues :
        /\ pc' = "done"
        /\ op' = "Display::fmt"
        /\ input' = x
        /\ result' = Display_fmt(x.ty, x.err)
        /\ applied' = <<>>

CallErrorSource ==
    /\ pc = "idle"
    /\ \E x \in ErrorValues :
        /\ pc' = "done"
        /\ op' = "Error::source"
        /\ input' = x
        /\ result' = Error_source(x.ty, x.err)
        /\ applied' = <<>>

CallGetAddressesByLabel ==
    /\ pc = "idle"
    /\ \E x \in WireAddressMaps :
        LET o == GetAddressesByLabel_into_model(x)
        IN  /\ pc' = "done"
            /\ op' = "GetAddressesByLabel::into_model"
            /\ input' = x
            /\ result' = o.res
            /\ applied' = o.applied

CallBumpFee ==
    /\ pc = "idle"
    /\ \E x \in WireBumpFees :
        LET o == BumpFee_into_model(x)
        IN  /\ pc' = "done"
            /\ op' = "BumpFee::into_model"
            /\ input' = x
            /\ result' = o.res
            /\ applied' = o.applied

Next ==
    \/ CallGetTransaction
    \/ CallGetTransactionDetail
    \/ CallGetBalance
    \/ CallGetBalanceBalance
    \/ CallGetReceivedByAddress
    \/ CallGetUnconfirmedBalance
    \/ CallGetAddressInfo
    \/ CallGetAddressInfoEmbedded
    \/ CallGetNewAddress
    \/ CallGetNewAddressAddress
    \/ CallSendToAddress
    \/ CallSendToAddressTxid
    \/ CallDumpPrivKey
    \/ CallDumpPrivKeyKey
    \/ CallCreateWallet
    \/ CallCreateWalletName
    \/ CallLoadWallet
    \/ CallLoadWalletName
    \/ ClientNewAddress
    \/ ClientNewAddressWithType
    \/ ClientSendToAddress
    \/ CallTransactionCategory
    \/ CallBip125Replaceable
    \/ CallGetAddressInfoScriptType
    \/ CallGetRawChangeAddress
    \/ CallBtcPerKb
    \/ CallGetWalletInfo
    \/ CallListReceivedByAddress
    \/ CallListSinceBlock
    \/ CallDisplayFmt
    \/ CallErrorSource
    \/ CallGetAddressesByLabel
    \/ CallBumpFee

Spec == Init /\ [][Next]_vars

(***************************************************************************)
(* Concurrent conversions.  NCalls calls of GetTransaction::into_model and *)
(* GetTransactionDetail::into_model run at once, each on the record it     *)
(* owns; a step is one statement of the function.  Under this              *)
(* specification every variable is a function of the call: pc[c] is the    *)
(* statement call c executes next, input[c] its record, result[c] its      *)
(* frame of local variables while it runs and its return value afterwards, *)
(* applied[c] the converters it has applied.                               *)
(***************************************************************************)
\* Number of calls in flight.
NCalls == 2

Calls == 1..NCalls

\* The records the concurrent calls are made on.
ConcurrentTransactions ==
    {x \in WireGetTransactions :
        /\ x.account = "" /\ x.confirmations = 0
        /\ x.amount = Dec(TRUE, 10000, 0)
        /\ x.txid = ValidTxid
        /\ \/ /\ x.fee = Some(Dec(TRUE, 0, 5))
              /\ x.hex = ValidTxHex
              /\ x.details = <<>>
           \/ /\ x.fee = None
              /\ x.hex = <<"z">> \o SubSeq(ValidTxHex, 2, Len(ValidTxHex))
              /\ x.details = <<>>
           \/ /\ x.fee = Some(Dec(TRUE, 226, 0))
              /\ x.hex = ValidTxHex
              /\ Len(x.details) = 2
              /\ x.details[1].label = Some("tips")
              /\ x.details[2].vout < 2}

ConcurrentDetails == {d \in WireDetails : d.vout = 0 \/ d.address \notin KnownAddresses}

\* The frame of a running call: its local variables.
Running(locals) == [kind |-> "running", locals |-> locals]

\* Mutant: a call reads the record of the first call of the same function.
OwnRecord_shared(c) == IF op[1] = op[c] THEN input[1] ELSE input[c]

\* `self`: the record the call was given by value.
OwnRecord(c) == input[c]

InitConcurrent ==
    /\ pc = [c \in Calls |-> "idle"]
    /\ op = [c \in Calls |-> "none"]
    /\ input = [c \in Calls |-> NoInput]
    /\ result = [c \in Calls |-> NoInput]
    /\ applied = [c \in Calls |-> <<>>]

\* A call returns r.
Return(c, r) ==
    /\ pc' = [pc EXCEPT ![c] = "done"]
    /\ result' = [result EXCEPT ![c] = r]

\* A call goes on to statement `next` with its local variables `locals`.
Goto(c, next, locals) ==
    /\ pc' = [pc EXCEPT ![c] = next]
    /\ result' = [result EXCEPT ![c] = Running(locals)]

BeginGetTransaction(c) ==
    /\ pc[c] = "idle"
    /\ \E x \in ConcurrentTransactions :
        /\ input' = [input EXCEPT ![c] = x]
        /\ op' = [op EXCEPT ![c] = "GetTransaction::into_model"]
        /\ pc' = [pc EXCEPT ![c] = "amount"]
        /\ result' = [result EXCEPT ![c] = Running([details |-> <<>>])]
        /\ applied' = [applied EXCEPT ![c] = <<>>]

BeginGetTransactionDetail(c) ==
    /\ pc[c] = "idle"
    /\ \E x \in ConcurrentDetails :
        /\ input' = [input EXCEPT ![c] = x]
        /\ op' = [op EXCEPT ![c] = "GetTransactionDetail::into_model"]
        /\ pc' = [pc EXCEPT ![c] = "address"]
        /\ result' = [result EXCEPT ![c] = Running([none |-> TRUE])]
        /\ applied' = [applied EXCEPT ![c] = <<>>]

\* let amount = SignedAmount::from_btc(self.amount).map_err(E::Amount)?;
TxAmount(c) ==
    /\ op[c] = "GetTransaction::into_model" /\ pc[c] = "amount"
    /\ LET self == OwnRecord(c)
           amount == SignedAmount_from_btc(self.amount)
       IN  IF IsErr(amount) THEN Return(c, Err(Variant("Amount", amount.err)))
           ELSE Goto(c, IF self.fee.is_some THEN "fee" ELSE "txid",
                     [amount |-> amount.val, fee |-> None, details |-> <<>>])
    /\ applied' = [applied EXCEPT ![c] = Append(@, Field("amount"))]
    /\ UNCHANGED <<op, input>>

\* let fee = self.fee.map(|fee| SignedAmount::from_btc(fee).map_err(E::Fee)).transpose()?;
TxFee(c) ==
    /\ op[c] = "GetTransaction::into_model" /\ pc[c] = "fee"
    /\ LET self == OwnRecord(c)
           fee == SignedAmount_from_btc(self.fee.val)
       IN  IF IsErr(fee) THEN Return(c, Err(Variant("Fee", fee.err)))
           ELSE Goto(c, "txid", [result[c].locals EXCEPT !.fee = Some(fee.val)])
    /\ applied' = [applied EXCEPT ![c] = Append(@, Field("fee"))]
    /\ UNCHANGED <<op, input>>

\* let txid = self.txid.parse::<Txid>().map_err(E::Txid)?;
TxTxid(c) ==
    /\ op[c] = "GetTransaction::into_model" /\ pc[c] = "txid"
    /\ LET self == OwnRecord(c)
           txid == Txid_from_str(self.txid)
           l == result[c].locals
       IN  IF IsErr(txid) THEN Return(c, Err(Variant("Txid", txid.err)))
           ELSE Goto(c, "hex", [amount |-> l.amount, fee |-> l.fee,
                                details |-> l.details, txid |-> txid.val])
    /\ applied' = [applied EXCEPT ![c] = Append(@, Field("txid"))]
    /\ UNCHANGED <<op, input>>

\* let tx = encode::deserialize_hex::<Transaction>(&self.hex).map_err(E::Tx)?;
TxHex(c) ==
    /\ op[c] = "GetTransaction::into_model" /\ pc[c] = "hex"
    /\ LET self == OwnRecord(c)
           tx == deserialize_hex(self.hex)
           l == result[c].locals
       IN  IF IsErr(tx) THEN Return(c, Err(Variant("Tx", tx.err)))
           ELSE Goto(c, IF Len(self.details) = 0 THEN "return" ELSE "details",
                     [amount |-> l.amount, fee |-> l.fee, details |-> l.details,
                      txid |-> l.txid, tx |-> tx.val])
    /\ applied' = [applied EXCEPT ![c] = Append(@, Field("hex"))]
    /\ UNCHANGED <<op, input>>

\* One turn of the loop over self.details.
TxDetails(c) ==
    /\ op[c] = "GetTransaction::into_model" /\ pc[c] = "details"
    /\ LET self == OwnRecord(c)
           l == result[c].locals
           i == Len(l.details) + 1
           concrete == GetTransactionDetail_into_model(self.details[i]).res
       IN  /\ IF IsErr(concrete)
              THEN Return(c, Err(GetTransaction_details_err(concrete.err)))
              ELSE Goto(c, IF i = Len(self.details) THEN "return" ELSE "details",
                        [l EXCEPT !.details = Append(@, concrete.val)])
           /\ applied' = [applied EXCEPT ![c] = Append(@, Elem("details", i))]
    /\ UNCHANGED <<op, input>>

\* Ok(model::GetTransaction { .. })
TxReturn(c) ==
    /\ op[c] = "GetTransaction::into_model" /\ pc[c] = "return"
    /\ LET self == OwnRecord(c)
           l == result[c].locals
       IN  Return(c, Ok([amount |-> l.amount,
                         fee |-> l.fee,
                         confirmations |-> self.confirmations,
                         txid |-> l.txid,
                         time |-> self.time,
                         time_received |-> self.time_received,
                         bip125_replaceable |-> self.bip125_replaceable,
                         details |-> l.details,
                         tx |-> l.tx]))
    /\ UNCHANGED <<op, input, applied>>

\* let address = Address::from_str(&self.address).map_err(E::Address)?;
DetailAddress(c) ==
    /\ op[c] = "GetTransactionDetail::into_model" /\ pc[c] = "address"
    /\ LET self == OwnRecord(c)
           address == Address_from_str(self.address)
       IN  IF IsErr(address) THEN Return(c, Err(Variant("Address", address.err)))
           ELSE Goto(c, "amount", [address |-> address.val])
    /\ applied' = [applied EXCEPT ![c] = Append(@, Field("address"))]
    /\ UNCHANGED <<op, input>>

\* let amount = SignedAmount::from_btc(self.amount).map_err(E::Amount)?;
DetailAmount(c) ==
    /\ op[c] = "GetTransactionDetail::into_model" /\ pc[c] = "amount"
    /\ LET self == OwnRecord(c)
           amount == SignedAmount_from_btc(self.amount)
           l == result[c].locals
       IN  IF IsErr(amount) THEN Return(c, Err(Variant("Amount", amount.err)))
           ELSE Goto(c, IF self.fee.is_some THEN "fee" ELSE "return",
                     [address |-> l.address, amount |-> amount.val, fee |-> None])
    /\ applied' = [applied EXCEPT ![c] = Append(@, Field("amount"))]
    /\ UNCHANGED <<op, input>>

\* let fee = self.fee.map(|fee| SignedAmount::from_btc(fee).map_err(E::Fee)).transpose()?;
DetailFee(c) ==
    /\ op[c] = "GetTransactionDetail::into_model" /\ pc[c] = "fee"
    /\ LET self == OwnRecord(c)
           fee == SignedAmount_from_btc(self.fee.val)
       IN  IF IsErr(fee) THEN Return(c, Err(Variant("Fee", fee.err)))
           ELSE Goto(c, "return", [result[c].locals EXCEPT !.fee = Some(fee.val)])
    /\ applied' = [applied EXCEPT ![c] = Append(@, Field("fee"))]
    /\ UNCHANGED <<op, input>>

\* Ok(model::GetTransactionDetail { .. })
DetailReturn(c) ==
    /\ op[c] = "GetTransactionDetail::into_model" /\ pc[c] = "return"
    /\ LET self == OwnRecord(c)
           l == result[c].locals
       IN  Return(c, Ok([address |-> l.address,
                         category |-> TransactionCategory_into_model(self.category),
                         amount |-> l.amount,
                         label |-> self.label,
                         vout |-> self.vout,
                         fee |-> l.fee,
                         abandoned |-> self.abandoned]))
    /\ UNCHANGED <<op, input, applied>>

NextConcurrent ==
    \E c \in Calls :
        \/ BeginGetTransaction(c)
        \/ BeginGetTransactionDetail(c)
        \/ TxAmount(c)
        \/ TxFee(c)
        \/ TxTxid(c)
        \/ TxHex(c)
        \/ TxDetails(c)
        \/ TxReturn(c)
        \/ DetailAddress(c)
        \/ DetailAmount(c)
        \/ DetailFee(c)
        \/ DetailReturn(c)

SpecConcurrent == InitConcurrent /\ [][NextConcurrent]_vars

(***************************************************************************)
(* Vocabulary of the properties.                                           *)
(***************************************************************************)
Ran(name) == pc = "done" /\ op = name

IsHexString(s) == Len(s) % 2 = 0 /\ \A i \in 1..Len(s) : IsHexChar(s[i])

\* A decimal that is an exact number of subunits within the signed range.
ExactSigned(x) == x.sub = 0 /\ x.sat <= SignedAmountMax

\* A decimal that is an exact, non-negative number of subunits within the
\* unsigned range.
ExactUnsigned(x) == x.sub = 0 /\ ~IsNegative(x) /\ x.sat <= AmountMax

DetailValid(d) ==
    /\ d.address \in KnownAddresses
    /\ ExactSigned(d.amount)
    /\ d.fee.is_some => ExactSigned(d.fee.val)

\* The converters of GetTransaction::into_model in the order of its
\* statements, for a record x: fee only when present, one per detail.
GetTransaction_validation_sequence(x) ==
    <<Field("amount")>>
        \o (IF x.fee.is_some THEN <<Field("fee")>> ELSE <<>>)
        \o <<Field("txid"), Field("hex")>>
        \o [i \in 1..Len(x.details) |-> Elem("details", i)]

\* Whether the converter of entry e fails on record x, taken alone.
GetTransaction_converter_fails(x, e) ==
    CASE e.field = "amount" -> IsErr(SignedAmount_from_btc(x.amount))
      [] e.field = "fee" -> IsErr(SignedAmount_from_btc(x.fee.val))
      [] e.field = "txid" -> IsErr(Txid_from_str(x.txid))
      [] e.field = "hex" -> IsErr(deserialize_hex(x.hex))
      [] e.field = "details" ->
            IsErr(GetTransactionDetail_into_model(x.details[e.index]).res)

\* The GetTransactionError variant declared for a field.
GetTransactionError_variant(f) ==
    CASE f = "amount" -> "Amount"
      [] f = "fee" -> "Fee"
      [] f = "txid" -> "Txid"
      [] f = "hex" -> "Tx"
      [] f = "details" -> "Details"

\* Whether field f of record x is invalid, taken alone.
GetTransaction_field_invalid(x, f) ==
    CASE f = "amount" -> ~ExactSigned(x.amount)
      [] f = "fee" -> x.fee.is_some /\ ~ExactSigned(x.fee.val)
      [] f = "txid" -> ~(Len(x.txid) = 2 * TxidBytes /\ IsHexString(x.txid))
      [] f = "hex" -> ~(IsHexString(x.hex) /\ HexBytes(x.hex) \in KnownTransactions)
      [] f = "details" -> \E i \in 1..Len(x.details) : ~DetailValid(x.details[i])
      [] OTHER -> FALSE

(***************************************************************************)
(* C1.  GetTransaction::into_model is fail-fast: the converters it applies *)
(* are an initial part of its validation sequence, every converter applied *)
(* before the last one succeeded, an error is the variant of the last      *)
(* converter applied, which is the first one that fails, and no converter  *)
(* after it is applied; a success applied the whole sequence.              *)
(***************************************************************************)
C1_FailFast ==
    Ran("GetTransaction::into_model") =>
        LET seq == GetTransaction_validation_sequence(input)
            n == Len(applied)
        IN  /\ n >= 1 /\ n <= Len(seq)
            /\ applied = SubSeq(seq, 1, n)
            /\ \A k \in 1..(n - 1) : ~GetTransaction_converter_fails(input, applied[k])
            /\ IsErr(result) \/ IsOk(result)
            /\ IsErr(result) =>
                /\ GetTransaction_converter_fails(input, applied[n])
                /\ result.err.variant = GetTransactionError_variant(applied[n].field)
            /\ IsOk(result) =>
                /\ n = Len(seq)
                /\ ~GetTransaction_converter_fails(input, applied[n])

\* A record with several invalid fields (txid, hex and a detail) reported
\* as its first one only.
C1_Witness ==
    /\ Ran("GetTransaction::into_model")
    /\ GetTransaction_field_invalid(input, "txid")
    /\ GetTransaction_field_invalid(input, "hex")
    /\ GetTransaction_field_invalid(input, "details")
    /\ IsErr(result)
    /\ result.err.variant = "Txid"
    /\ applied[Len(applied)] = Field("txid")

(***************************************************************************)
(* C2.  The error of GetTransaction::into_model is tagged with the invalid *)
(* field that the wire record declares first; with an invalid element in   *)
(* `details` and an invalid `hex` it is the `details` variant.             *)
(***************************************************************************)
C2_DeclarationOrder ==
    (Ran("GetTransaction::into_model") /\ IsErr(result)) =>
        LET invalid == {k \in 1..Len(GetTransaction_fields) :
                            GetTransaction_field_invalid(input, GetTransaction_fields[k])}
            first == CHOOSE k \in invalid : \A j \in invalid : k <= j
        IN  /\ invalid # {}
            /\ result.err.variant = GetTransactionError_variant(GetTransaction_fields[first])

(***************************************************************************)
(* C3.  A GetTransaction record with valid amount and fee and a txid that  *)
(* is valid hex of another length than 32 bytes gives the Txid variant,    *)
(* whatever hex and details hold, and neither of them is converted.        *)
(***************************************************************************)
C3_Precondition ==
    /\ Ran("GetTransaction::into_model")
    /\ ~GetTransaction_field_invalid(input, "amount")
    /\ ~GetTransaction_field_invalid(input, "fee")
    /\ IsHexString(input.txid)
    /\ Len(input.txid) # 2 * TxidBytes

C3_TxidWrongLength ==
    C3_Precondition =>
        /\ IsErr(result)
        /\ result.err.variant = "Txid"
        /\ result.err.cause.variant = "InvalidLength"
        /\ \A k \in 1..Len(applied) : applied[k].field \notin {"hex", "details"}

C3_Witness ==
    /\ C3_Precondition
    /\ Len(input.txid) = 60
    /\ GetTransaction_field_invalid(input, "hex")
    /\ GetTransaction_field_invalid(input, "details")
    /\ result.err.variant = "Txid"

(***************************************************************************)
(* C4.  GetTransaction::into_model returns Ok exactly when every fallible  *)
(* field is valid taken alone; an absent fee is valid and gives an absent  *)
(* model fee; the reply of a send to self converts.                        *)
(***************************************************************************)
C4_SendToSelf ==
    /\ input.amount = Dec(FALSE, 0, 0)
    /\ input.fee = Some(Dec(TRUE, 226, 0))
    /\ Len(input.details) = 2
    /\ input.details[1].category.variant = "Send"
    /\ input.details[2].category.variant = "Receive"
    /\ IsHexString(input.txid) /\ Len(input.txid) = 2 * TxidBytes
    /\ input.hex = ValidTxHex
    /\ \A i \in 1..2 : DetailValid(input.details[i])

C4_OkIffAllValid ==
    Ran("GetTransaction::into_model") =>
        /\ IsOk(result) <=>
              \A k \in 1..Len(GetTransaction_fields) :
                  ~GetTransaction_field_invalid(input, GetTransaction_fields[k])
        /\ (IsOk(result) /\ ~input.fee.is_some) => result.val.fee = None
        /\ (IsOk(result) /\ input.fee.is_some) =>
              /\ result.val.fee.is_some
              /\ result.val.fee.val.sat =
                    (IF input.fee.val.neg THEN 0 - input.fee.val.sat
                     ELSE input.fee.val.sat)
        /\ C4_SendToSelf => IsOk(result)

C4_Witness ==
    /\ Ran("GetTransaction::into_model")
    /\ C4_SendToSelf
    /\ IsOk(result)
    /\ result.val.fee = Some([ty |-> "SignedAmount", sat |-> -226])
    /\ Len(result.val.details) = 2

(***************************************************************************)
(* C5.  GetBalance(0.00515000) gives exactly 515000 subunits and           *)
(* GetBalance(-0.0001) fails as out of range; a non-negative whole number  *)
(* n of subunits (that the amount type holds) gives n and every negative   *)
(* value fails.                                                            *)
(***************************************************************************)
C5_GetBalance ==
    Ran("GetBalance::into_model") =>
        /\ input = Dec(FALSE, 515000, 0) =>
              result = Ok([ty |-> "GetBalance", amount |-> [ty |-> "Amount", sat |-> 515000]])
        /\ input = Dec(TRUE, 10000, 0) =>
              IsErr(result) /\ result.err.variant = "OutOfRange"
        /\ ExactUnsigned(input) =>
              IsOk(result) /\ result.val.amount.sat = input.sat
        /\ IsNegative(input) => IsErr(result)

C5_Witness ==
    /\ Ran("GetBalance::into_model")
    /\ input = Dec(TRUE, 10000, 0)
    /\ IsErr(result)
    /\ result.err.variant = "OutOfRange"

(***************************************************************************)
(* C6.  For every amount field, a conversion that succeeds renders back to *)
(* the decimal it was given, a decimal that is an exact number of subunits *)
(* of the field's type converts, and a decimal with more precision than    *)
(* one subunit fails instead of being rounded.                             *)
(***************************************************************************)
C6_ScalarOps ==
    {"GetBalance::into_model", "GetReceivedByAddress::into_model",
     "GetUnconfirmedBalance::into_model"}

C7_DetailsWrapped ==
    Ran("GetTransaction::into_model") =>
        /\ \A k \in 1..Len(applied) :
              (/\ applied[k].field = "details"
               /\ GetTransaction_converter_fails(input, applied[k])) =>
                  /\ result = Err(Variant("Details",
                        GetTransactionDetail_into_model(input.details[applied[k].index]).res.err))
                  /\ result.err.cause.variant \in {"Address", "Amount", "Fee"}
        /\ (IsErr(result) /\ result.err.variant \in {"Amount", "Fee"}) =>
              \A k \in 1..Len(applied) : applied[k].field # "details"
        /\ (IsErr(result) /\ result.err.variant = "Amount") =>
              result = Err(Variant("Amount", SignedAmount_from_btc(input.amount).err))
        /\ (IsErr(result) /\ result.err.variant = "Fee") =>
              /\ input.fee.is_some
              /\ result = Err(Variant("Fee", SignedAmount_from_btc(input.fee.val).err))

C7_Witness ==
    /\ Ran("GetTransaction::into_model")
    /\ IsErr(result)
    /\ result.err.variant = "Details"
    /\ result.err.cause.variant = "Fee"
    /\ result.err.cause.cause.variant = "TooPrecise"

\* The fields GetAddressInfo::into_model converts before `embedded` all
\* convert.
GetAddressInfo_before_embedded_valid(self) ==
    /\ IsOk(Address_from_str(self.address))
    /\ IsOk(ScriptBuf_from_hex(self.script_pubkey))
    /\ IsOk(GetAddressInfo_witness(self).res)
    /\ (self.hex.is_some => IsOk(ScriptBuf_from_hex(self.hex.val)))
    /\ \A i \in 1..Len(self.pubkeys) : IsOk(PublicKey_from_str(self.pubkeys[i]))
    /\ (self.pubkey.is_some => IsOk(PublicKey_from_str(self.pubkey.val)))

\* C8: a GetAddressInfo record whose earlier fields are valid and whose
\* embedded sub-record has an invalid script converts to the error variant
\* Embedded, and the wrapped cause is the embedded record's own error naming
\* the failing sub-field.
C8_EmbeddedWrapped ==
    ( /\ Ran("GetAddressInfo::into_model")
      /\ GetAddressInfo_before_embedded_valid(input)
      /\ input.embedded.is_some
      /\ IsErr(ScriptBuf_from_hex(input.embedded.val.script_pubkey)) )
    => /\ IsErr(result)
       /\ result.err.variant = "Embedded"
       /\ result.err.cause.variant = "ScriptPubkey"

\* C9: no conversion and no helper built on a conversion ends in a panic;
\* each returns a model value or a typed error.
C9_NoPanic == pc = "done" => ~IsPanic(result)

\* The accessors and, for each, the conversion it is built on and the field
\* it projects.
Accessor_projection(name, self) ==
    CASE name = "GetBalance::balance" ->
            LET m == GetBalance_into_model(self)
            IN  IF IsOk(m) THEN Ok(m.val.amount) ELSE m
      [] name = "GetNewAddress::address" ->
            LET m == GetNewAddress_into_model(self)
            IN  IF IsOk(m) THEN Ok(m.val.address) ELSE m
      [] name = "SendToAddress::txid" ->
            LET m == SendToAddress_into_model(self)
            IN  IF IsOk(m) THEN Ok(m.val.txid) ELSE m
      [] name = "DumpPrivKey::key" ->
            LET m == DumpPrivKey_into_model(self)
            IN  IF IsOk(m) THEN Ok(m.val.key) ELSE m
      [] name = "CreateWallet::name" ->
            Returned(CreateWallet_into_model(self).val.name)
      [] name = "LoadWallet::name" ->
            Returned(LoadWallet_into_model(self).val.name)

Accessors ==
    {"GetBalance::balance", "GetNewAddress::address", "SendToAddress::txid",
     "DumpPrivKey::key", "CreateWallet::name", "LoadWallet::name"}

\* C10: every single-field accessor returns the corresponding field of what
\* into_model returns on the same input when into_model succeeds, and
\* into_model's own error when it fails.
C10_AccessorsProject ==
    \A name \in Accessors :
        Ran(name) => result = Accessor_projection(name, input)

C10_Witness ==
    /\ Ran("SendToAddress::txid")
    /\ IsErr(SendToAddress_into_model(input))
    /\ result = Err([variant |-> "InvalidLength", expected |-> 2 * TxidBytes,
                     got |-> Len(input)])

\* The model variant that has the meaning of a wire variant: the variant of
\* the same name in the model enum of the wire enum.
ModelEnumOf(ty) ==
    CASE ty = "TransactionCategory" -> "TransactionCategory"
      [] ty = "Bip125Replaceable" -> "Bip125Replaceable"
      [] ty = "GetAddressInfoScriptType" -> "ScriptType"

\* C11: every declared wire variant of TransactionCategory,
\* Bip125Replaceable and GetAddressInfoScriptType (all nine, witness_unknown
\* included) converts to the model variant of the same meaning.
C11_EveryVariantConverts ==
    \A ty \in {"TransactionCategory", "Bip125Replaceable", "GetAddressInfoScriptType"} :
        Ran(ty \o "::into_model")
            => result = Ok(ModelEnum(ModelEnumOf(ty), input.variant))

\* The address of a wire record that has one, and of the model made from it.
AddressRecords ==
    {"GetNewAddress::into_model", "GetRawChangeAddress::into_model",
     "GetAddressInfo::into_model", "GetTransactionDetail::into_model"}

WireAddressOf(name, self) ==
    IF name \in {"GetNewAddress::into_model", "GetRawChangeAddress::into_model"}
    THEN self ELSE self.address

\* C12: in every address-returning record the string
\* "132F25rTsvBdp9JzLLBHP5mvGY66i1xdiM" converts, "not-an-address" fails with
\* the address parse error, and a successful conversion yields a
\* network-checked address.
C12_CheckedAddress ==
    \A name \in AddressRecords :
        Ran(name) =>
            /\ (WireAddressOf(name, input) = "not-an-address" =>
                    /\ IsErr(result)
                    /\ \/ result.err = Address_from_str("not-an-address").err
                       \/ result.err = Variant("Address",
                                           Address_from_str("not-an-address").err))
            /\ (IsOk(result) =>
                    /\ Address_from_str(WireAddressOf(name, input)) =
                           Ok([ty |-> "Address",
                               payload |-> WireAddressOf(name, input),
                               checked |-> FALSE])
                    /\ result.val.address.payload = WireAddressOf(name, input)
                    /\ result.val.address.checked)

\* A string is valid hex that decodes to n bytes.
FixedHexValid(s, n) == IsHexString(s) /\ Len(s) = 2 * n

\* The length-specific error of a string that should decode to n bytes.
LengthError(s, n) == [variant |-> "InvalidLength", expected |-> 2 * n, got |-> Len(s)]

\* The converter of a field, or of an element of a list field, was applied.
Converted(e) == \E i \in 1..Len(applied) : applied[i] = e

\* A call that applied the converter of entry e to the string s, a field of
\* n bytes whose error variant is `tag`, failed at e exactly when s is not
\* valid hex of n bytes, and with the length error when s is valid hex of
\* another length.
FixedHexField(e, s, n, tag) ==
    Converted(e) =>
        /\ (/\ IsErr(result)
            /\ result.err.variant = tag
            /\ applied[Len(applied)] = e) <=> ~FixedHexValid(s, n)
        /\ (IsHexString(s) /\ Len(s) # 2 * n)
               => result = Err(Variant(tag, LengthError(s, n)))

\* C13: every hex-encoded field of fixed length (txid of SendToAddress,
\* GetTransaction and ListReceivedByAddress.txids, last_block of
\* ListSinceBlock, hd_seed_id of GetAddressInfo and GetWalletInfo) converts
\* exactly when the string is valid hex of the documented number of bytes,
\* and valid hex of another length fails with the length error.
C13_FixedLengthHex ==
    /\ Ran("SendToAddress::into_model") =>
          /\ IsOk(result) <=> FixedHexValid(input, TxidBytes)
          /\ (IsHexString(input) /\ Len(input) # 2 * TxidBytes)
                 => result = Err(LengthError(input, TxidBytes))
    /\ Ran("GetTransaction::into_model") =>
          FixedHexField(Field("txid"), input.txid, TxidBytes, "Txid")
    /\ Ran("ListReceivedByAddress::into_model") =>
          /\ \A i \in 1..Len(input.txids) :
                FixedHexField(Elem("txids", i), input.txids[i], TxidBytes, "Txids")
          /\ IsOk(result) =>
                \A i \in 1..Len(input.txids) : FixedHexValid(input.txids[i], TxidBytes)
    /\ Ran("ListSinceBlock::into_model") =>
          /\ FixedHexField(Field("last_block"), input.last_block, BlockHashBytes,
                           "LastBlock")
          /\ IsOk(result) <=> FixedHexValid(input.last_block, BlockHashBytes)
    /\ Ran("GetAddressInfo::into_model") =>
          /\ input.hd_seed_id.is_some =>
                FixedHexField(Field("hd_seed_id"), input.hd_seed_id.val,
                              Hash160Bytes, "HdSeedId")
          /\ (IsOk(result) /\ input.hd_seed_id.is_some)
                 => FixedHexValid(input.hd_seed_id.val, Hash160Bytes)
    /\ Ran("GetWalletInfo::into_model") =>
          /\ input.hd_seed_id.is_some =>
                FixedHexField(Field("hd_seed_id"), input.hd_seed_id.val,
                              Hash160Bytes, "HdSeedId")
          /\ (IsOk(result) /\ input.hd_seed_id.is_some)
                 => FixedHexValid(input.hd_seed_id.val, Hash160Bytes)

C13_Witness ==
    /\ Ran("GetWalletInfo::into_model")
    /\ input.hd_seed_id = Some(Rep("C", 42))
    /\ result = Err(Variant("HdSeedId", LengthError(Rep("C", 42), Hash160Bytes)))

\* C14: in GetAddressInfo and GetWalletInfo a present hd_seed_id is the one
\* converted and the alias hd_master_key_id is ignored; when hd_seed_id is
\* absent and the alias is present, the model's hd_seed_id is converted from
\* the alias.
C14_AliasFallback ==
    \A name \in {"GetAddressInfo::into_model", "GetWalletInfo::into_model"} :
        (Ran(name) /\ IsOk(result)) =>
            /\ input.hd_seed_id.is_some =>
                  result.val.hd_seed_id =
                      Some(Hash160_from_str(input.hd_seed_id.val).val)
            /\ (~input.hd_seed_id.is_some /\ input.hd_master_key_id.is_some
                  /\ IsOk(Hash160_from_str(input.hd_master_key_id.val))) =>
                  result.val.hd_seed_id =
                      Some(Hash160_from_str(input.hd_master_key_id.val).val)

\* The variants the error enums declare.
GetAddressInfoError_variants ==
    {"Address", "ScriptPubkey", "WitnessVersionValue", "WitnessVersion",
     "WitnessProgram", "Hex", "Pubkeys", "Pubkey", "Embedded", "HdKeyPath",
     "HdSeedId", "Labels"}

GetWalletInfoError_variants ==
    {"Balance", "UnconfirmedBalance", "ImmatureBalance", "HdSeedId"}

\* The declared variants that tag a failure of the converter of a field.
GetAddressInfoError_of_field(f) ==
    CASE f = "address" -> {"Address"}
      [] f = "script_pubkey" -> {"ScriptPubkey"}
      [] f = "witness_version" -> {"WitnessVersionValue", "WitnessVersion"}
      [] f = "witness_program" -> {"WitnessProgram"}
      [] f = "hex" -> {"Hex"}
      [] f = "pubkeys" -> {"Pubkeys"}
      [] f = "pubkey" -> {"Pubkey"}
      [] f = "embedded" -> {"Embedded"}
      [] f = "hd_key_path" -> {"HdKeyPath"}
      [] f = "hd_seed_id" -> {"HdSeedId"}
      [] f = "labels" -> {"Labels"}

\* An error value is a converter's own error, not a variant of the record's
\* error enum.
IsConverterError(e) == "cause" \notin DOMAIN e

\* C15: every failure of GetAddressInfo::into_model is a declared variant of
\* GetAddressInfoError tagged with the field whose step failed and wrapping
\* that converter's error, and GetWalletInfo::into_model reports a failing
\* fee-rate conversion of pay_tx_fee as a variant of its own.
C15_OneVariantPerField ==
    /\ (Ran("GetAddressInfo::into_model") /\ ~IsOk(result)) =>
          /\ IsErr(result)
          /\ result.err.variant \in GetAddressInfoError_variants
          /\ result.err.variant \in
                GetAddressInfoError_of_field(applied[Len(applied)].field)
          /\ result.err.variant # "WitnessVersionValue"
                => IsConverterError(result.err.cause)
    /\ (Ran("GetWalletInfo::into_model") /\ Converted(Field("pay_tx_fee"))
          /\ IsErr(btc_per_kb(input.pay_tx_fee))) =>
          /\ IsErr(result)
          /\ result.err.variant = "PayTxFee"
    /\ (Ran("GetWalletInfo::into_model") /\ IsErr(result)) =>
          result.err.variant \in GetWalletInfoError_variants

\* C16: btc_per_kb turns a rate of n whole subunits per 1000 size-units
\* into the rate n/1000 subunits per size-unit, and fails only when the rate
\* is negative or out of range.
C16_BtcPerKb ==
    (Ran("btc_per_kb") /\ input.sub = 0 /\ ~IsNegative(input)
        /\ input.sat <= AmountMax) =>
        /\ IsOk(result)
        /\ 4 * result.val.sat_per_kwu = input.sat

\* A negative decimal that is a whole number of subunits within the signed
\* range.
NegativeExact(x) == IsNegative(x) /\ ExactSigned(x)

\* C17: a negative whole number -n of subunits in GetTransaction.amount,
\* GetTransaction.fee, GetTransactionDetail.amount or
\* GetTransactionDetail.fee is converted to the signed amount -n and is no
\* cause of failure; the same negative value fails in GetBalance and
\* GetReceivedByAddress.
C17_SignPreserved ==
    /\ \A name \in {"GetTransaction::into_model", "GetTransactionDetail::into_model"} :
          Ran(name) =>
             /\ (Converted(Field("amount")) /\ NegativeExact(input.amount)) =>
                   /\ ~(IsErr(result) /\ result.err.variant = "Amount")
                   /\ IsOk(result) => result.val.amount.sat = 0 - input.amount.sat
             /\ (Converted(Field("fee")) /\ NegativeExact(input.fee.val)) =>
                   /\ ~(IsErr(result) /\ result.err.variant = "Fee")
                   /\ IsOk(result) => result.val.fee = Some([ty |-> "SignedAmount",
                                                 sat |-> 0 - input.fee.val.sat])
    /\ \A name \in {"GetBalance::into_model", "GetReceivedByAddress::into_model"} :
          (Ran(name) /\ IsNegative(input)) =>
              result = Err([variant |-> "OutOfRange", is_negative |-> TRUE])

C17_Witness ==
    /\ Ran("GetTransactionDetail::into_model")
    /\ input.amount = Dec(TRUE, 10000, 0)
    /\ input.fee = Some(Dec(TRUE, 226, 0))
    /\ IsOk(result)
    /\ result.val.amount.sat = 0 - 10000
    /\ result.val.fee.val.sat = 0 - 226

\* What a call returns and which converters it applies when it runs alone.
Alone(name, x) ==
    IF name = "GetTransaction::into_model" THEN GetTransaction_into_model(x)
    ELSE GetTransactionDetail_into_model(x)

\* C18: in every interleaving of the statements of concurrent into_model
\* calls, a call that has returned has the result, and has applied the
\* converters, of the same call run alone on its record; two calls on equal
\* records have equal results.
C18_Independent ==
    /\ \A c \in Calls :
          pc[c] = "done" =>
             /\ result[c] = Alone(op[c], input[c]).res
             /\ applied[c] = Alone(op[c], input[c]).applied
    /\ \A c, d \in Calls :
          (pc[c] = "done" /\ pc[d] = "done" /\ op[c] = op[d] /\ input[c] = input[d])
              => result[c] = result[d]

C18_Witness ==
    /\ pc[1] = "details" /\ Len(result[1].locals.details) = 1
    /\ pc[2] = "done" /\ IsErr(result[2])
    /\ op[2] = "GetTransaction::into_model"
    /\ input[1] # input[2]

\* C19: a model returned by a successful into_model holds converted values
\* only: the GetAddressInfo model's script_pubkey is the parsed script and
\* its script the model script type, the GetTransaction model's
\* bip125_replaceable is the model enum.
C19_NoRawWireValue ==
    /\ (Ran("GetAddressInfo::into_model") /\ IsOk(result)) =>
          /\ result.val.script_pubkey = ScriptBuf_from_hex(input.script_pubkey).val
          /\ input.script.is_some =>
                result.val.script =
                    Some(ModelEnum("ScriptType", input.script.val.variant))
    /\ (Ran("GetTransaction::into_model") /\ IsOk(result)) =>
          result.val.bip125_replaceable =
              ModelEnum("Bip125Replaceable", input.bip125_replaceable.variant)

\* The fields GetAddressInfo::into_model converts after `embedded` all
\* convert.
GetAddressInfo_after_embedded_valid(self) ==
    /\ (self.hd_key_path.is_some => IsOk(DerivationPath_from_str(self.hd_key_path.val)))
    /\ (self.hd_seed_id.is_some => IsOk(Hash160_from_str(self.hd_seed_id.val)))
    /\ IsOk(GetAddressInfo_labels(self.labels, 1, <<>>))

\* C20: GetAddressInfo::into_model converts `embedded` only when every other
\* fallible field of the record is valid; a record with an invalid
\* hd_key_path, hd_seed_id or labels never has its `embedded` converted.
C20_EmbeddedLast ==
    (Ran("GetAddressInfo::into_model") /\ Converted(Field("embedded"))) =>
        /\ GetAddressInfo_before_embedded_valid(input)
        /\ GetAddressInfo_after_embedded_valid(input)

(***************************************************************************)
(* C21                                                                     *)
(***************************************************************************)
\* The fields the three conversions copy: by name, or through `.into()`.
GetTransaction_copied == {"confirmations", "time", "time_received"}

GetTransactionDetail_copied == {"label", "vout", "abandoned"}

GetWalletInfo_copied ==
    {"wallet_name", "wallet_version", "tx_count", "keypool_oldest",
     "keypool_size", "keypool_size_hd_internal", "unlocked_until",
     "private_keys_enabled"}

Copied(fields) == \A f \in fields : result.val[f] = input[f]

\* C21: after a successful GetTransaction::into_model the model's
\* confirmations, time and time_received are the wire values; after a
\* successful GetTransactionDetail::into_model so are label, vout and
\* abandoned; after a successful GetWalletInfo::into_model so are
\* wallet_name, wallet_version, tx_count, keypool_oldest, keypool_size,
\* keypool_size_hd_internal, unlocked_until and private_keys_enabled,
\* negative and largest values included.
C21_CopiedFields ==
    /\ Ran("GetTransaction::into_model") /\ IsOk(result)
        => Copied(GetTransaction_copied)
    /\ Ran("GetTransactionDetail::into_model") /\ IsOk(result)
        => Copied(GetTransactionDetail_copied)
    /\ Ran("GetWalletInfo::into_model") /\ IsOk(result)
        => Copied(GetWalletInfo_copied)

\* A wallet record with a negative keypool_oldest, the largest tx_count and a
\* keypool_size_hd_internal above 16 bits has converted.
C21_Witness ==
    /\ Ran("GetWalletInfo::into_model") /\ IsOk(result)
    /\ input.keypool_oldest < 0 /\ input.tx_count = 2147483647
    /\ input.keypool_size_hd_internal = 65536
    /\ result.val.keypool_oldest = input.keypool_oldest

(***************************************************************************)
(* C22                                                                     *)
(***************************************************************************)
Words(m) == {m.words[i] : i \in 1..Len(m.words)}

\* C22: the displayed message of every variant of the six conversion errors
\* names the field the variant is tagged with, source() returns the wrapped
\* cause of every variant that wraps one, and WitnessVersionValue has a
\* message of its own that carries the offending number and differs from
\* the message of WitnessVersion.
C22_MessageNamesField ==
    /\ Ran("Display::fmt") =>
          /\ result.kind = "value"
          /\ ConversionErrors[input.ty].fields[input.err.variant] \in Words(result.val)
          /\ result.val.shown = input.err.cause
          /\ input.err.variant = "WitnessVersionValue" =>
                result.val.words #
                    Display_fmt(input.ty, Variant("WitnessVersion", 256)).val.words
    /\ Ran("Error::source") /\ input.err.variant # "WitnessVersionValue" =>
          result = Returned(Some(input.err.cause))

(***************************************************************************)
(* C23                                                                     *)
(***************************************************************************)
\* The 1-based positions of the ids of a list that do not parse.
FailingTxids(txids) == {i \in 1..Len(txids) : IsErr(Txid_from_str(txids[i]))}

FirstFailingTxid(txids) ==
    CHOOSE i \in FailingTxids(txids) : \A j \in FailingTxids(txids) : i <= j

\* C23: when an id of `txids` fails to parse, the Txids error carries the
\* (0-based) index of the first failing id together with its hex error and
\* no later id is parsed; when all parse, the model list has the same
\* length and order.
C23_TxidsIndex ==
    Ran("ListReceivedByAddress::into_model") =>
        /\ (IsErr(result) /\ result.err.variant = "Txids") =>
              /\ result.err.cause =
                    Txid_from_str(input.txids[FirstFailingTxid(input.txids)]).err
              /\ applied[Len(applied)] =
                    Elem("txids", FirstFailingTxid(input.txids))
              /\ "index" \in DOMAIN result.err
              /\ result.err.index = FirstFailingTxid(input.txids) - 1
        /\ IsOk(result) =>
              /\ Len(result.val.txids) = Len(input.txids)
              /\ \A i \in 1..Len(input.txids) :
                    result.val.txids[i] = Txid_from_str(input.txids[i]).val

(***************************************************************************)
(* C24                                                                     *)
(***************************************************************************)
\* The 1-based positions of the detail records of a list that do not convert.
FailingDetails(details) ==
    {i \in 1..Len(details) : IsErr(GetTransactionDetail_into_model(details[i]).res)}

FirstFailingDetail(details) ==
    CHOOSE i \in FailingDetails(details) : \A j \in FailingDetails(details) : i <= j

\* C24: GetTransaction::into_model converts `details` in list order: on
\* success the model list has the wire list's length and its element i is
\* the conversion of wire element i; on a Details failure the error is that
\* of the lowest-index failing element and no later element is converted.
C24_DetailsInOrder ==
    Ran("GetTransaction::into_model") =>
        /\ IsOk(result) =>
              /\ Len(result.val.details) = Len(input.details)
              /\ \A i \in 1..Len(input.details) :
                    result.val.details[i] =
                        GetTransactionDetail_into_model(input.details[i]).res.val
        /\ (IsErr(result) /\ result.err.variant = "Details") =>
              LET first == FirstFailingDetail(input.details)
              IN  /\ result.err.cause =
                        GetTransactionDetail_into_model(input.details[first]).res.err
                  /\ applied[Len(applied)] = Elem("details", first)
                  /\ \A k \in 1..Len(applied) :
                        applied[k].field = "details" => applied[k].index <= first

\* A list of two records whose first fails and whose second converts: only
\* the first was converted.
C24_Witness ==
    /\ Ran("GetTransaction::into_model")
    /\ IsErr(result) /\ result.err.variant = "Details"
    /\ Len(input.details) = 2
    /\ FailingDetails(input.details) = {1}
    /\ Elem("details", 2) \notin {applied[k] : k \in 1..Len(applied)}

(***************************************************************************)
(* C25                                                                     *)
(***************************************************************************)
Applied(f) == \E k \in 1..Len(applied) : applied[k].field = f

WitnessErrors ==
    {"WitnessVersionValue", "WitnessVersion", "WitnessProgramBytes", "WitnessProgram"}

\* C25: in the model of GetAddressInfo witness_version is present exactly
\* when witness_program is; when the wire record carries exactly one of the
\* two, neither is converted, no witness error is returned whatever the
\* content of the one present, and both model fields are absent.
C25_WitnessPair ==
    Ran("GetAddressInfo::into_model") =>
        /\ IsOk(result) =>
              result.val.witness_version.is_some = result.val.witness_program.is_some
        /\ input.witness_version.is_some # input.witness_program.is_some =>
              /\ ~Applied("witness_version") /\ ~Applied("witness_program")
              /\ IsErr(result) => result.err.variant \notin WitnessErrors
              /\ IsOk(result) =>
                    /\ result.val.witness_version = None
                    /\ result.val.witness_program = None

\* A record with an out-of-range witness_version and no witness_program has
\* converted, with both model fields absent.
C25_Witness ==
    /\ Ran("GetAddressInfo::into_model") /\ IsOk(result)
    /\ input.witness_version = Some(256) /\ input.witness_program = None
    /\ result.val.witness_version = None /\ result.val.witness_program = None

(***************************************************************************)
(* C26                                                                     *)
(***************************************************************************)
\* C26: when both witness fields are present and the match is reached, a
\* witness_version outside 0..=255 gives WitnessVersionValue carrying that
\* exact number, before the program hex is examined; a value inside the
\* range reaches the version conversion unchanged.
C26_VersionRange ==
    (/\ Ran("GetAddressInfo::into_model")
     /\ input.witness_version.is_some /\ input.witness_program.is_some
     /\ Applied("witness_version")) =>
        LET v == input.witness_version.val
        IN  /\ (v < 0 \/ v > 255) =>
                  /\ IsErr(result)
                  /\ result.err.variant = "WitnessVersionValue"
                  /\ result.err.cause = v
                  /\ ~Applied("witness_program")
            /\ v \in 0..255 =>
                  /\ IsErr(result) => result.err.variant # "WitnessVersionValue"
                  /\ (IsErr(result) /\ result.err.variant = "WitnessVersion") =>
                        result.err.cause.invalid = v
                  /\ IsOk(result) => result.val.witness_version.val.v = v

\* A version of 256 next to a program that is not hex was rejected for the
\* version, with the number in the error.
C26_Witness ==
    /\ Ran("GetAddressInfo::into_model")
    /\ input.witness_version = Some(256)
    /\ input.witness_program = Some(<<"x", "y">>)
    /\ result = Err(Variant("WitnessVersionValue", 256))

(***************************************************************************)
(* C27                                                                     *)
(***************************************************************************)
\* The records with their ignored fields set to fixed values: two records
\* that differ only in ignored fields have the same image.
GetTransactionDetail_without_ignored(x) == [x EXCEPT !.account = ""]

GetTransaction_without_ignored(x) ==
    [x EXCEPT !.account = "", !.block_hash = <<>>, !.block_index = 0,
              !.block_time = 0,
              !.details = [k \in 1..Len(x.details) |->
                              GetTransactionDetail_without_ignored(x.details[k])]]

GetAddressInfo_without_ignored(x) ==
    IF x.hd_seed_id.is_some
    THEN [x EXCEPT !.account = "", !.hd_master_key_id = None]
    ELSE [x EXCEPT !.account = ""]

\* C27: the result of GetTransaction::into_model is a function of the record
\* without `account`, `block_hash`, `block_index` and `block_time`, so two
\* records that differ only there give the same model or the same error and
\* a malformed block_hash never makes the conversion fail; likewise for
\* GetTransactionDetail without `account` and for GetAddressInfo without
\* `account` and, when hd_seed_id is present, without `hd_master_key_id`.
C27_IgnoredFields ==
    /\ Ran("GetTransaction::into_model") =>
          /\ result = GetTransaction_into_model(GetTransaction_without_ignored(input)).res
          /\ IsErr(result) => result.err.variant \in
                {"Amount", "Fee", "Txid", "Tx", "Details"}
    /\ Ran("GetTransactionDetail::into_model") =>
          result = GetTransactionDetail_into_model(
                       GetTransactionDetail_without_ignored(input)).res
    /\ Ran("GetAddressInfo::into_model") =>
          result = GetAddressInfo_into_model(GetAddressInfo_without_ignored(input)).res

\* A record with a malformed block_hash, an account and a detail record with
\* an account has converted.
C27_Witness ==
    /\ Ran("GetTransaction::into_model") /\ IsOk(result)
    /\ input.block_hash = <<"x", "y">> /\ input.account = "savings"
    /\ Len(input.details) > 0 /\ input.details[1].account = "savings"

(***************************************************************************)
(* C28                                                                     *)
(***************************************************************************)
\* The positions, in iteration order, of the keys that are not addresses.
FailingKeys(m) ==
    {i \in 1..Cardinality(DOMAIN m) : IsErr(Address_from_str(BTreeMap_iter(m)[i]))}

\* C28: GetAddressesByLabel::into_model visits the entries in ascending key
\* order and fails with the Address variant for the first key that is not
\* an address; on success the model map has exactly one entry per wire
\* entry, holding the purpose of that entry.
C28_OneEntryPerKey ==
    Ran("GetAddressesByLabel::into_model") =>
        /\ FailingKeys(input.addresses) # {} =>
              LET first == CHOOSE i \in FailingKeys(input.addresses) :
                               \A j \in FailingKeys(input.addresses) : i <= j
              IN  /\ IsErr(result)
                  /\ applied[Len(applied)] = Elem("addresses", first)
                  /\ "variant" \in DOMAIN result.err
                  /\ result.err.variant = "Address"
        /\ FailingKeys(input.addresses) = {} =>
              /\ IsOk(result)
              /\ Cardinality(DOMAIN result.val.addresses) =
                    Cardinality(DOMAIN input.addresses)
              /\ \A k \in DOMAIN input.addresses :
                    result.val.addresses[assume_checked(Address_from_str(k).val)] =
                        AddressPurpose_into_model(input.addresses[k])

(***************************************************************************)
(* C29                                                                     *)
(***************************************************************************)
\* C29: BumpFee::into_model fails only on `txid`; when it succeeds the
\* model's original_fee and fee are the amounts of exactly as many subunits
\* as the wire values, each from its own field, and `errors` is the wire list.
C29_FeesInSubunits ==
    Ran("BumpFee::into_model") =>
        /\ IsErr(result) = IsErr(Txid_from_str(input.txid))
        /\ IsErr(result) => result.err.variant = "Txid"
        /\ IsOk(result) =>
              /\ result.val.fee = Amount_from_sat(input.fee)
              /\ result.val.errors = input.errors
              /\ result.val.original_fee = Amount_from_sat(input.original_fee)

(***************************************************************************)
(* C30                                                                     *)
(***************************************************************************)
\* C30: CreateWallet::into_model and LoadWallet::into_model always return a
\* model, whose name is the wire name and whose warnings list has exactly
\* one element, the wire warning, the empty string included; name() returns
\* the wire name.
C30_OneWarning ==
    /\ (Ran("CreateWallet::into_model") \/ Ran("LoadWallet::into_model")) =>
          /\ result.kind = "value"
          /\ result.val.name = input.name
          /\ Len(result.val.warnings) = 1
          /\ result.val.warnings[1] = input.warning
    /\ (Ran("CreateWallet::name") \/ Ran("LoadWallet::name")) =>
          result = Returned(input.name)

\* A reply with an empty warning was converted into a model with a list of
\* one empty string.
C30_Witness ==
    /\ Ran("CreateWallet::into_model")
    /\ input.warning = "" /\ input.name = "wallet-1"
    /\ result.val.warnings = <<"">>

====
